---- MODULE Spec2Model ----
(***************************************************************************)
(* Model of the zatboard coordinator: the REGISTER / AUTH session state    *)
(* machine of Coordinator (src/src/coordinator.rs) and the permissioned    *)
(* virtual filesystem it guards (src/src/filesystem.rs).                   *)
(*                                                                         *)
(* Text (memo text, identities, paths, tokens) is a sequence of            *)
(* one-character strings, so prefix tests, splitting, trimming and         *)
(* concatenation are computed as the code computes them.                   *)
(***************************************************************************)
EXTENDS Integers, Sequences, FiniteSets

VARIABLES
    verified_users,      \* Coordinator.verified_users: sender -> reply address
    pending_challenges,  \* Coordinator.pending_challenges: sender -> challenge
    session_mappings,    \* Coordinator.session_mappings: session id -> reply address
    auth_sessions,       \* Coordinator.auth_flow.session_manager: sender -> session
    filesystem,          \* Coordinator.filesystem: [root |-> FileNode]
    clock,               \* the wall clock (SystemTime::now), in seconds
    message,             \* the last message handed to process_incoming_message
    route,               \* the last call: the branch process_incoming_message took,
                         \* or "cleanup" for cleanup_expired_sessions
    reply,               \* the Result<String, String> it returned
    nmsgs,               \* number of messages processed so far
    registered_at,       \* history: sender -> time and reply address of its last
                         \* processed REGISTER
    authenticated_at,    \* history: sender -> time of its last successful AUTH
    issued_challenges,   \* history: <<sender, challenge>> pairs sent in REGISTER replies
    issued_sessions,     \* history: <<sender, session id>> pairs sent in AUTH replies
    call,                \* the last direct call on Coordinator.filesystem (the field
                         \* is pub): its name and arguments, the filesystem before
                         \* it, and the numbers of calls and of permission changes
                         \* so far
    daemon,              \* the loop of the coordinator daemon's main: its position,
                         \* the batch polled, what is left of it, the messages
                         \* handled with their outcomes, and the number of polls
    poller               \* one call of the client's poll_with_retry: its position,
                         \* its arguments, the attempt, the last error, the
                         \* result, and the polls and sleeps made so far

vars == <<verified_users, pending_challenges, session_mappings, auth_sessions,
          filesystem, clock, message, route, reply, nmsgs,
          registered_at, authenticated_at, issued_challenges, issued_sessions,
          call, daemon, poller>>

registries == <<verified_users, pending_challenges, session_mappings>>

(***************************************************************************)
(* Bounds of the model.                                                    *)
(***************************************************************************)
\* number of process_incoming_message calls in a run of Spec
MaxMsgs == 3
\* largest value of the wall clock in a run of Spec
MaxClock == 3
\* number of process_incoming_message calls in a run of SpecSessions
MaxSessionMsgs == 4
\* number of process_incoming_message calls in a run of SpecLongRun
MaxLongRunMsgs == 4
\* largest value of the wall clock in a run of SpecLongRun and of
\* SpecIsolation
MaxLongRunClock == 10

\* number of permission changes on the root in a run of SpecCommands and of
\* SpecTouch
MaxRootGrants == 1
\* number of process_incoming_message calls in a run of SpecTouch
MaxTouchMsgs == 5
\* number of polls of the daemon's loop in a run of SpecDaemon
MaxPolls == 2
\* largest number of messages one poll returns in SpecDaemon
MaxBatch == 2
\* largest attempts argument of poll_with_retry in SpecRetry
MaxAttempts == 3
\* largest delay_ms argument of poll_with_retry in SpecRetry
MaxDelay == 1
\* number of process_incoming_message calls in a run of SpecReregister
MaxReregisterMsgs == 5
\* largest value of the wall clock in a run of SpecReregister
MaxReregisterClock == 1
\* number of process_incoming_message calls in a run of SpecEffects
MaxEffectsMsgs == 4
\* number of grants from outside in a run of SpecEffects
MaxEffectsGrants == 1
\* number of process_incoming_message calls in a run of SpecLocal
MaxLocalMsgs == 3
\* number of filesystem calls in a run of SpecLocal
MaxLocalCalls == 4
\* number of changes of permissions in a run of SpecLocal
MaxLocalEdits == 2
\* number of process_incoming_message calls in a run of SpecIsolation
MaxIsolationMsgs == 4
\* number of process_incoming_message calls in a run of SpecTotal
MaxTotalMsgs == 3
\* number of process_incoming_message calls in a run of SpecRead
MaxReadMsgs == 3
\* number of create_directory and create_file calls in a run of SpecRead
MaxReadCalls == 2
\* number of direct changes of the fields of a node in a run of SpecRead
MaxReadEdits == 1
\* number of permission changes in a run of SpecGrants
MaxGrantCalls == 3
\* number of create_directory, create_file, remove and update_content calls
\* in a run of SpecFs, of SpecPaths, of SpecNodes, of SpecRelative, of
\* SpecListing and of SpecOwner
MaxFsCalls == 3
\* number of permission changes in a run of SpecFs
MaxFsGrants == 1
\* number of changes of the root's public_write in a run of SpecOwner
MaxOwnerGrants == 2
\* largest value of the wall clock in a run of SpecFs and of SpecPaths
MaxFsClock == 1

\* Coordinator::new(session_timeout): the timeout the coordinator is built with
SessionTimeout == 1

(***************************************************************************)
(* Text.                                                                   *)
(***************************************************************************)
\* the characters used, in byte (ASCII) order
Ascii == <<" ", ".", "/", "0", "1", "2", "3", "4", "5", "6", "7", "8", "9", ":",
           "A", "E", "G", "H", "I", "R", "S", "T", "U", "_",
           "a", "b", "c", "d", "e", "h", "i", "k", "l", "m", "n", "o", "q", "r",
           "s", "t", "u", "x", "y", "z">>

Ord(c) == CHOOSE i \in 1..Len(Ascii) : Ascii[i] = c

\* str::starts_with
StartsWith(s, p) == Len(s) >= Len(p) /\ SubSeq(s, 1, Len(p)) = p

\* str::strip_prefix(p).unwrap(), for a text that starts with p
StripPrefix(s, p) == SubSeq(s, Len(p) + 1, Len(s))

\* position of the first c in s, 0 if there is none
IndexOf(s, c) ==
    IF \E i \in 1..Len(s) : s[i] = c
    THEN CHOOSE i \in 1..Len(s) : s[i] = c /\ \A j \in 1..(i - 1) : s[j] # c
    ELSE 0

\* str::split(c): the pieces between the occurrences of c (never empty:
\* "".split(c) is [""])
RECURSIVE Split(_, _)
Split(s, c) ==
    LET i == IndexOf(s, c) IN
    IF i = 0 THEN <<s>>
    ELSE <<SubSeq(s, 1, i - 1)>> \o Split(SubSeq(s, i + 1, Len(s)), c)

\* str::splitn(n, c): at most n pieces, the last one holding the rest
RECURSIVE SplitN(_, _, _)
SplitN(n, s, c) ==
    LET i == IndexOf(s, c) IN
    IF n = 0 THEN <<>>
    ELSE IF n = 1 \/ i = 0 THEN <<s>>
    ELSE <<SubSeq(s, 1, i - 1)>> \o SplitN(n - 1, SubSeq(s, i + 1, Len(s)), c)

\* [&str]::join(sep)
RECURSIVE Join(_, _)
Join(parts, sep) ==
    IF Len(parts) = 0 THEN <<>>
    ELSE IF Len(parts) = 1 THEN parts[1]
    ELSE parts[1] \o sep \o Join(Tail(parts), sep)

\* str::trim_start_matches(c)
RECURSIVE TrimStartMatches(_, _)
TrimStartMatches(s, c) ==
    IF Len(s) > 0 /\ s[1] = c THEN TrimStartMatches(Tail(s), c) ELSE s

\* str::trim_end_matches(c)
RECURSIVE TrimEndMatches(_, _)
TrimEndMatches(s, c) ==
    IF Len(s) > 0 /\ s[Len(s)] = c
    THEN TrimEndMatches(SubSeq(s, 1, Len(s) - 1), c) ELSE s

Digits == <<"0", "1", "2", "3", "4", "5", "6", "7", "8", "9">>

\* u64::to_string: the decimal digits of n
RECURSIVE U64ToString(_)
U64ToString(n) ==
    IF n < 10 THEN <<Digits[n + 1]>>
    ELSE U64ToString(n \div 10) \o <<Digits[(n % 10) + 1]>>

\* Option<T>
None == <<>>
Some(x) == <<x>>
IsSome(o) == o # None
Unwrap(o) == o[1]

\* Result<String, String>: the text is a format string and its argument
Ok(text, arg) == [ok |-> TRUE, text |-> text, arg |-> arg]
Err(text, arg) == [ok |-> FALSE, text |-> text, arg |-> arg]

\* HashMap
EmptyMap == [k \in {} |-> k]
Insert(m, k, v) == [x \in (DOMAIN m) \cup {k} |-> IF x = k THEN v ELSE m[x]]
Remove(m, k) == [x \in (DOMAIN m) \ {k} |-> m[x]]
Get(m, k) == IF k \in DOMAIN m THEN Some(m[k]) ELSE None

(***************************************************************************)
(* Permissions and FileNode (filesystem.rs).                               *)
(***************************************************************************)
Directory == "Directory"
File == "File"

\* Permissions::new with public_write set
PermissionsNewPublicWrite(owner) ==
    [owner |-> owner, read_users |-> <<owner>>, write_users |-> <<owner>>,
     public_read |-> TRUE, public_write |-> TRUE]

\* Permissions::new
PermissionsNew(owner) ==
    [owner |-> owner, read_users |-> <<owner>>, write_users |-> <<owner>>,
     public_read |-> TRUE, public_write |-> FALSE]

\* Vec::contains
Contains(v, x) == \E i \in 1..Len(v) : v[i] = x

can_read(p, user) == p.public_read \/ p.owner = user \/ Contains(p.read_users, user)

\* can_write answering by public_read
can_write_as_read(p, user) ==
    p.public_read \/ p.owner = user \/ Contains(p.write_users, user)

\* Permissions::can_write
can_write(p, user) == p.public_write \/ p.owner = user \/ Contains(p.write_users, user)

add_read_permission(p, user) ==
    IF ~Contains(p.read_users, user)
    THEN [p EXCEPT !.read_users = Append(@, user)] ELSE p

\* add_write_permission without the test for an entry already there
add_write_permission_pushing(p, user) ==
    [p EXCEPT !.write_users = Append(@, user)]

\* Permissions::add_write_permission
add_write_permission(p, user) ==
    IF ~Contains(p.write_users, user)
    THEN [p EXCEPT !.write_users = Append(@, user)] ELSE p

\* FileNode::new_directory at time now
new_directory(name, owner, now) ==
    [name |-> name, file_type |-> Directory, content |-> None,
     children |-> EmptyMap, permissions |-> PermissionsNew(owner),
     created_by |-> owner, created_at |-> now, modified_at |-> now]

\* FileNode::new_file at time now
new_file(name, content, owner, now) ==
    [name |-> name, file_type |-> File, content |-> Some(content),
     children |-> EmptyMap, permissions |-> PermissionsNew(owner),
     created_by |-> owner, created_at |-> now, modified_at |-> now]

\* add_child inserting the child before it looks at the kind of the node
add_child_unchecked(node, child, now) ==
    [res |-> IF node.file_type # Directory
             THEN Err("Cannot add children to a file", <<>>) ELSE Ok("", <<>>),
     node |-> [node EXCEPT !.children = Insert(@, child.name, child),
                           !.modified_at = now]]

\* FileNode::add_child at time now: the Result and the node afterwards
add_child(node, child, now) ==
    IF node.file_type # Directory
    THEN [res |-> Err("Cannot add children to a file", <<>>), node |-> node]
    ELSE [res |-> Ok("", <<>>),
          node |-> [node EXCEPT !.children = Insert(@, child.name, child),
                                !.modified_at = now]]

\* FileNode::get_child
get_child(node, name) == Get(node.children, name)

\* update_content without the test of the kind of the node
update_content_unchecked(node, content, now) ==
    [res |-> Ok("", <<>>),
     node |-> [node EXCEPT !.content = Some(content), !.modified_at = now]]

\* FileNode::update_content at time now: the Result and the node afterwards
update_content(node, content, now) ==
    IF node.file_type # File
    THEN [res |-> Err("Cannot set content on a directory", <<>>), node |-> node]
    ELSE [res |-> Ok("", <<>>),
          node |-> [node EXCEPT !.content = Some(content), !.modified_at = now]]

\* byte-wise lexicographic order of two texts (String's Ord)
RECURSIVE StrLess(_, _)
StrLess(a, b) ==
    IF Len(b) = 0 THEN FALSE
    ELSE IF Len(a) = 0 THEN TRUE
    ELSE IF a[1] # b[1] THEN Ord(a[1]) < Ord(b[1])
    ELSE StrLess(Tail(a), Tail(b))

\* Vec::sort of a set of distinct texts
RECURSIVE SortSet(_)
SortSet(S) ==
    IF S = {} THEN <<>>
    ELSE LET m == CHOOSE x \in S : \A y \in S \ {x} : StrLess(x, y)
         IN <<m>> \o SortSet(S \ {m})

\* list_children sorting the names before the "/" is put behind a directory's
list_children_sorting_names(node) ==
    [i \in 1..Len(SortSet(DOMAIN node.children)) |->
        IF node.children[SortSet(DOMAIN node.children)[i]].file_type = Directory
        THEN SortSet(DOMAIN node.children)[i] \o <<"/">>
        ELSE SortSet(DOMAIN node.children)[i]]

\* FileNode::list_children
list_children(node) ==
    SortSet({ IF node.children[name].file_type = Directory
              THEN name \o <<"/">> ELSE name : name \in DOMAIN node.children })

(***************************************************************************)
(* FileSystem (filesystem.rs).                                             *)
(***************************************************************************)
\* FileSystem::new
FileSystemNew(owner, now) == [root |-> new_directory(<<"/">>, owner, now)]

\* the loop of resolve_path with an empty part looked up as a child's name
RECURSIVE DescendThroughEmpty(_, _)
DescendThroughEmpty(node, parts) ==
    IF Len(parts) = 0 THEN Some(node)
    ELSE IF IsSome(get_child(node, parts[1]))
         THEN DescendThroughEmpty(Unwrap(get_child(node, parts[1])), Tail(parts))
         ELSE None

\* the loop of resolve_path: descend from node through parts, skipping the
\* empty ones
RECURSIVE Descend(_, _)
Descend(node, parts) ==
    IF Len(parts) = 0 THEN Some(node)
    ELSE IF Len(parts[1]) = 0 THEN Descend(node, Tail(parts))
    ELSE IF IsSome(get_child(node, parts[1]))
         THEN Descend(Unwrap(get_child(node, parts[1])), Tail(parts))
         ELSE None

\* FileSystem::resolve_path
resolve_path(fs, path) ==
    IF path = <<"/">> THEN Some(fs.root)
    ELSE Descend(fs.root, Split(TrimStartMatches(path, "/"), "/"))

\* the write through the reference resolve_path_mut returns: the node that
\* parts lead to from node (skipping the empty ones) replaced by new
RECURSIVE Replace(_, _, _)
Replace(node, parts, new) ==
    IF Len(parts) = 0 THEN new
    ELSE IF Len(parts[1]) = 0 THEN Replace(node, Tail(parts), new)
    ELSE [node EXCEPT !.children[parts[1]] = Replace(@, Tail(parts), new)]

\* a write of new that lands on the root, whatever the path
write_path_root(fs, path, new) == [fs EXCEPT !.root = new]

\* FileSystem::resolve_path_mut followed by a write of new to the node found
write_path(fs, path, new) ==
    IF path = <<"/">> THEN [fs EXCEPT !.root = new]
    ELSE [fs EXCEPT !.root = Replace(@, Split(TrimStartMatches(path, "/"), "/"), new)]

\* FileSystem::split_path: the Result, and on Ok the parent path and the name
split_path(path0) ==
    LET path == TrimEndMatches(path0, "/")
        parts == Split(TrimStartMatches(path, "/"), "/")
    IN  IF path = <<"/">>
        THEN [res |-> Err("Cannot create root directory", <<>>)]
        ELSE IF Len(parts) = 0 \/ Len(parts[Len(parts)]) = 0
        THEN [res |-> Err("Invalid path", <<>>)]
        ELSE [res |-> Ok("", <<>>),
              parent_path |-> IF Len(parts) = 1 THEN <<"/">>
                              ELSE <<"/">> \o Join(SubSeq(parts, 1, Len(parts) - 1), <<"/">>),
              name |-> parts[Len(parts)]]

\* create_directory without the test of the parent's permissions
create_directory_unguarded(fs, path, owner, now) ==
    LET sp == split_path(path) IN
    IF ~sp.res.ok THEN [res |-> sp.res, fs |-> fs]
    ELSE LET parent == resolve_path(fs, sp.parent_path) IN
    IF ~IsSome(parent)
    THEN [res |-> Err("Parent directory not found: ", sp.parent_path), fs |-> fs]
    ELSE IF sp.name \in DOMAIN Unwrap(parent).children
    THEN [res |-> Err("Directory already exists", <<>>), fs |-> fs]
    ELSE LET added == add_child(Unwrap(parent), new_directory(sp.name, owner, now), now)
         IN  [res |-> added.res, fs |-> write_path(fs, sp.parent_path, added.node)]

\* create_directory without the test for a child of the same name
create_directory_overwriting(fs, path, owner, now) ==
    LET sp == split_path(path) IN
    IF ~sp.res.ok THEN [res |-> sp.res, fs |-> fs]
    ELSE LET parent == resolve_path(fs, sp.parent_path) IN
    IF ~IsSome(parent)
    THEN [res |-> Err("Parent directory not found: ", sp.parent_path), fs |-> fs]
    ELSE IF ~can_write(Unwrap(parent).permissions, owner)
    THEN [res |-> Err("Permission denied: cannot write to parent directory", <<>>),
          fs |-> fs]
    ELSE LET added == add_child(Unwrap(parent), new_directory(sp.name, owner, now), now)
         IN  [res |-> added.res, fs |-> write_path(fs, sp.parent_path, added.node)]

\* FileSystem::create_directory at time now: the Result and the filesystem
\* afterwards
create_directory(fs, path, owner, now) ==
    LET sp == split_path(path) IN
    IF ~sp.res.ok THEN [res |-> sp.res, fs |-> fs]
    ELSE LET parent == resolve_path(fs, sp.parent_path) IN
    IF ~IsSome(parent)
    THEN [res |-> Err("Parent directory not found: ", sp.parent_path), fs |-> fs]
    ELSE IF ~can_write(Unwrap(parent).permissions, owner)
    THEN [res |-> Err("Permission denied: cannot write to parent directory", <<>>),
          fs |-> fs]
    ELSE IF sp.name \in DOMAIN Unwrap(parent).children
    THEN [res |-> Err("Directory already exists", <<>>), fs |-> fs]
    ELSE LET added == add_child(Unwrap(parent), new_directory(sp.name, owner, now), now)
         IN  [res |-> added.res, fs |-> write_path(fs, sp.parent_path, added.node)]

\* create_file leaving a child of the same name in place
create_file_keeping(fs, path, content, owner, now) ==
    LET sp == split_path(path) IN
    IF ~sp.res.ok THEN [res |-> sp.res, fs |-> fs]
    ELSE LET parent == resolve_path(fs, sp.parent_path) IN
    IF ~IsSome(parent)
    THEN [res |-> Err("Parent directory not found: ", sp.parent_path), fs |-> fs]
    ELSE IF ~can_write(Unwrap(parent).permissions, owner)
    THEN [res |-> Err("Permission denied: cannot write to parent directory", <<>>),
          fs |-> fs]
    ELSE IF sp.name \in DOMAIN Unwrap(parent).children
    THEN [res |-> Ok("", <<>>), fs |-> fs]
    ELSE LET added == add_child(Unwrap(parent), new_file(sp.name, content, owner, now), now)
         IN  [res |-> added.res, fs |-> write_path(fs, sp.parent_path, added.node)]

\* FileSystem::create_file at time now: the Result and the filesystem afterwards
\* create_file that also asks for write permission on the root
create_file_from_root(fs, path, content, owner, now) ==
    LET sp == split_path(path) IN
    IF ~sp.res.ok THEN [res |-> sp.res, fs |-> fs]
    ELSE LET parent == resolve_path(fs, sp.parent_path) IN
    IF ~IsSome(parent)
    THEN [res |-> Err("Parent directory not found: ", sp.parent_path), fs |-> fs]
    ELSE IF \/ ~can_write(Unwrap(parent).permissions, owner)
            \/ ~can_write(fs.root.permissions, owner)
    THEN [res |-> Err("Permission denied: cannot write to parent directory", <<>>),
          fs |-> fs]
    ELSE LET added == add_child(Unwrap(parent), new_file(sp.name, content, owner, now), now)
         IN  [res |-> added.res, fs |-> write_path(fs, sp.parent_path, added.node)]

\* create_file that replaces a child only for the owner of that child
create_file_owned(fs, path, content, owner, now) ==
    LET sp == split_path(path) IN
    IF ~sp.res.ok THEN [res |-> sp.res, fs |-> fs]
    ELSE LET parent == resolve_path(fs, sp.parent_path) IN
    IF ~IsSome(parent)
    THEN [res |-> Err("Parent directory not found: ", sp.parent_path), fs |-> fs]
    ELSE IF ~can_write(Unwrap(parent).permissions, owner)
    THEN [res |-> Err("Permission denied: cannot write to parent directory", <<>>),
          fs |-> fs]
    ELSE IF /\ sp.name \in DOMAIN Unwrap(parent).children
            /\ Unwrap(parent).children[sp.name].permissions.owner # owner
    THEN [res |-> Err("Permission denied: cannot replace", <<>>), fs |-> fs]
    ELSE LET added == add_child(Unwrap(parent), new_file(sp.name, content, owner, now), now)
         IN  [res |-> added.res, fs |-> write_path(fs, sp.parent_path, added.node)]

create_file(fs, path, content, owner, now) ==
    LET sp == split_path(path) IN
    IF ~sp.res.ok THEN [res |-> sp.res, fs |-> fs]
    ELSE LET parent == resolve_path(fs, sp.parent_path) IN
    IF ~IsSome(parent)
    THEN [res |-> Err("Parent directory not found: ", sp.parent_path), fs |-> fs]
    ELSE IF ~can_write(Unwrap(parent).permissions, owner)
    THEN [res |-> Err("Permission denied: cannot write to parent directory", <<>>),
          fs |-> fs]
    ELSE LET added == add_child(Unwrap(parent), new_file(sp.name, content, owner, now), now)
         IN  [res |-> added.res, fs |-> write_path(fs, sp.parent_path, added.node)]

\* remove without the test for the root path
remove_any(fs, path, user, now) ==
    LET sp == split_path(path) IN
    IF ~sp.res.ok THEN [res |-> sp.res, fs |-> fs]
    ELSE LET parent == resolve_path(fs, sp.parent_path) IN
    IF ~IsSome(parent)
    THEN [res |-> Err("Parent directory not found: ", sp.parent_path), fs |-> fs]
    ELSE IF ~can_write(Unwrap(parent).permissions, user)
    THEN [res |-> Err("Permission denied: cannot write to parent directory", <<>>),
          fs |-> fs]
    ELSE IF sp.name \notin DOMAIN Unwrap(parent).children
    THEN [res |-> Err("File or directory not found: ", path), fs |-> fs]
    ELSE [res |-> Ok("", <<>>),
          fs |-> write_path(fs, sp.parent_path,
                     [Unwrap(parent) EXCEPT !.children = Remove(@, sp.name),
                                            !.modified_at = now])]

\* remove leaving a directory that has children in place
remove_empty_only(fs, path, user, now) ==
    IF path = <<"/">>
    THEN [res |-> Err("Cannot remove root directory", <<>>), fs |-> fs]
    ELSE LET sp == split_path(path) IN
    IF ~sp.res.ok THEN [res |-> sp.res, fs |-> fs]
    ELSE LET parent == resolve_path(fs, sp.parent_path) IN
    IF ~IsSome(parent)
    THEN [res |-> Err("Parent directory not found: ", sp.parent_path), fs |-> fs]
    ELSE IF ~can_write(Unwrap(parent).permissions, user)
    THEN [res |-> Err("Permission denied: cannot write to parent directory", <<>>),
          fs |-> fs]
    ELSE IF sp.name \notin DOMAIN Unwrap(parent).children
    THEN [res |-> Err("File or directory not found: ", path), fs |-> fs]
    ELSE IF DOMAIN Unwrap(parent).children[sp.name].children # {}
    THEN [res |-> Ok("", <<>>), fs |-> fs]
    ELSE [res |-> Ok("", <<>>),
          fs |-> write_path(fs, sp.parent_path,
                     [Unwrap(parent) EXCEPT !.children = Remove(@, sp.name),
                                            !.modified_at = now])]

\* FileSystem::remove at time now: the Result and the filesystem afterwards
remove(fs, path, user, now) ==
    IF path = <<"/">>
    THEN [res |-> Err("Cannot remove root directory", <<>>), fs |-> fs]
    ELSE LET sp == split_path(path) IN
    IF ~sp.res.ok THEN [res |-> sp.res, fs |-> fs]
    ELSE LET parent == resolve_path(fs, sp.parent_path) IN
    IF ~IsSome(parent)
    THEN [res |-> Err("Parent directory not found: ", sp.parent_path), fs |-> fs]
    ELSE IF ~can_write(Unwrap(parent).permissions, user)
    THEN [res |-> Err("Permission denied: cannot write to parent directory", <<>>),
          fs |-> fs]
    ELSE IF sp.name \notin DOMAIN Unwrap(parent).children
    THEN [res |-> Err("File or directory not found: ", path), fs |-> fs]
    ELSE IF Unwrap(parent).children[sp.name].permissions.owner # user
            /\ ~can_write(Unwrap(parent).permissions, user)
    THEN [res |-> Err("Permission denied: cannot remove item", <<>>), fs |-> fs]
    ELSE [res |-> Ok("", <<>>),
          fs |-> write_path(fs, sp.parent_path,
                     [Unwrap(parent) EXCEPT !.children = Remove(@, sp.name),
                                            !.modified_at = now])]

(***************************************************************************)
(* Identities and messages.                                                *)
(***************************************************************************)
\* FileSystem::new("coordinator"): the owner of the root
COORDINATOR == <<"c", "o", "o", "r", "d", "i", "n", "a", "t", "o", "r">>

\* sender identities: no validation is done on them, so the root owner's name
\* is one a sender may carry
Senders == {<<"s">>, COORDINATOR}

\* sender identities of SpecSessions and SpecLongRun: one is the other
\* followed by a digit
SessionSenders == {<<"s">>, <<"s", "1">>}

AllSenders == Senders \cup SessionSenders

\* reply identities given in REGISTER
Replies == {<<"r">>, <<"q">>}

REGISTER_PREFIX == <<"R", "E", "G", "I", "S", "T", "E", "R", ":">>
AUTH_PREFIX == <<"A", "U", "T", "H", ":">>
LS_PREFIX == <<"l", "s", " ">>
CAT_PREFIX == <<"c", "a", "t", " ">>
MKDIR_PREFIX == <<"m", "k", "d", "i", "r", " ">>
TOUCH_PREFIX == <<"t", "o", "u", "c", "h", " ">>

\* the command memos sent: ls /, cat /a, mkdir /a, touch /a x, and a text
\* that is no command
CommandMemos ==
    { LS_PREFIX \o <<"/">>,
      CAT_PREFIX \o <<"/", "a">>,
      MKDIR_PREFIX \o <<"/", "a">>,
      TOUCH_PREFIX \o <<"/", "a", " ", "x">>,
      <<"h", "i">> }

\* the REGISTER and AUTH memos sender can send in the current state: it
\* knows the challenge tokens sent to it so far, the latest and the replaced
\* ones, and may present a text that is no token
SessionMemos(sender, replies) ==
    { REGISTER_PREFIX \o r : r \in replies }
    \cup { AUTH_PREFIX \o t :
             t \in { p[2] : p \in { q \in issued_challenges : q[1] = sender } }
                   \cup {<<"x">>} }

\* Message.signature: absent, or some signature text
Signatures == {None, Some(<<"s", "i", "g">>)}

Message(sender, memo, signature) ==
    [sender_address |-> sender, memo_text |-> memo, signature |-> signature]

(***************************************************************************)
(* SHA-256.  A digest is represented by the bytes that were hashed: two    *)
(* digests are equal exactly when the hashed bytes are equal (no           *)
(* collisions), also after the truncation to 16 hex digits.                *)
(***************************************************************************)
Sha256Hex16(bytes) == <<"#">> \o bytes

SESSION_TAG == <<"z", "a", "t", "b", "o", "a", "r", "d", "_",
                 "s", "e", "s", "s", "i", "o", "n">>

\* Coordinator::generate_session_id at time now: the three hasher.update
\* calls feed the hasher the concatenation of their arguments
generate_session_id(user_address, now) ==
    Sha256Hex16(user_address \o U64ToString(now) \o SESSION_TAG)

(***************************************************************************)
(* AuthenticationFlow (crate::auth).                                       *)
(***************************************************************************)
CHALLENGE_TAG == <<"c", "h", "a", "l", "l", "e", "n", "g", "e">>

\* the challenge token issued to sender at time now
generate_challenge(sender, now) ==
    Sha256Hex16(sender \o U64ToString(now) \o CHALLENGE_TAG)

\* AuthenticationFlow::initiate_authentication at time now: the challenge
\* and the session manager afterwards
initiate_authentication(sessions, sender, reply_address, now) ==
    [challenge |-> generate_challenge(sender, now),
     sessions |-> Insert(sessions, sender,
                         [challenge |-> generate_challenge(sender, now),
                          reply_address |-> reply_address,
                          issued_at |-> now])]

\* SessionManager::get_reply_address
session_get_reply_address(sessions, sender) ==
    IF sender \in DOMAIN sessions THEN Some(sessions[sender].reply_address) ELSE None

\* a sweep that drops one entry older than the timeout per call
auth_cleanup_one_expired_session(sessions, now, timeout) ==
    LET expired == { k \in DOMAIN sessions : now - sessions[k].issued_at > timeout }
    IN  IF expired = {} THEN sessions
        ELSE Remove(sessions, CHOOSE k \in expired : TRUE)

\* AuthenticationFlow::cleanup_expired_sessions at time now: the session
\* manager without the entries older than the timeout
auth_cleanup_expired_sessions(sessions, now, timeout) ==
    [k \in { k \in DOMAIN sessions : now - sessions[k].issued_at <= timeout }
        |-> sessions[k]]

(***************************************************************************)
(* Coordinator (coordinator.rs).  A handler is the value it returns and    *)
(* the fields of the coordinator after it.                                 *)
(***************************************************************************)
\* the coordinator's fields, unchanged, with the handler's Result
Returns(result) ==
    [reply |-> result,
     route |-> "",
     verified_users |-> verified_users,
     pending_challenges |-> pending_challenges,
     session_mappings |-> session_mappings,
     auth_sessions |-> auth_sessions,
     filesystem |-> filesystem]

handle_ls_command(user_id, path) ==
    LET node == resolve_path(filesystem, path) IN
    IF ~IsSome(node) THEN Err("Path not found: {}", path)
    ELSE IF ~can_read(Unwrap(node).permissions, user_id)
    THEN Err("Permission denied: cannot read directory", <<>>)
    ELSE IF Unwrap(node).file_type # Directory
    THEN Err("Not a directory", <<>>)
    ELSE IF Len(list_children(Unwrap(node))) = 0
    THEN Ok("(empty directory)", <<>>)
    ELSE Ok("{}", Join(list_children(Unwrap(node)), <<" ", " ">>))

\* handle_cat_command without the test of the permission to read
handle_cat_command_unguarded(user_id, path) ==
    LET node == resolve_path(filesystem, path) IN
    IF ~IsSome(node) THEN Err("File not found: {}", path)
    ELSE IF Unwrap(node).file_type # File
    THEN Err("Not a file", <<>>)
    ELSE IF IsSome(Unwrap(node).content)
    THEN Ok("{}", Unwrap(Unwrap(node).content))
    ELSE Ok("(empty file)", <<>>)

handle_cat_command(user_id, path) ==
    LET node == resolve_path(filesystem, path) IN
    IF ~IsSome(node) THEN Err("File not found: {}", path)
    ELSE IF ~can_read(Unwrap(node).permissions, user_id)
    THEN Err("Permission denied: cannot read file", <<>>)
    ELSE IF Unwrap(node).file_type # File
    THEN Err("Not a file", <<>>)
    ELSE IF IsSome(Unwrap(node).content)
    THEN Ok("{}", Unwrap(Unwrap(node).content))
    ELSE Ok("(empty file)", <<>>)

handle_mkdir_command(user_id, path) ==
    LET made == create_directory(filesystem, path, user_id, clock) IN
    [Returns(IF made.res.ok THEN Ok("Directory created: {}", path) ELSE made.res)
        EXCEPT !.filesystem = made.fs]

\* handle_touch_command dropping the content
handle_touch_command_blank(user_id, path, content) ==
    LET made == create_file(filesystem, path, <<>>, user_id, clock) IN
    [Returns(IF made.res.ok THEN Ok("File created: {}", path) ELSE made.res)
        EXCEPT !.filesystem = made.fs]

handle_touch_command(user_id, path, content) ==
    LET made == create_file(filesystem, path, content, user_id, clock) IN
    [Returns(IF made.res.ok THEN Ok("File created: {}", path) ELSE made.res)
        EXCEPT !.filesystem = made.fs]

UnknownCommand ==
    Err("Unknown command. Try: ls <path>, cat <file>, mkdir <dir>, touch <file> [content]",
        <<>>)

\* handle_authenticated_command indexing the third part of a touch memo
\* without the test of the number of parts: the panic of the index is
\* recorded as a result that is no reply of the coordinator
handle_authenticated_command_indexing(msg) ==
    LET user_id == msg.sender_address
        memo == msg.memo_text
        parts == SplitN(3, memo, " ")
    IN  IF StartsWith(memo, LS_PREFIX)
        THEN Returns(handle_ls_command(user_id, StripPrefix(memo, LS_PREFIX)))
        ELSE IF StartsWith(memo, CAT_PREFIX)
        THEN Returns(handle_cat_command(user_id, StripPrefix(memo, CAT_PREFIX)))
        ELSE IF StartsWith(memo, MKDIR_PREFIX)
        THEN handle_mkdir_command(user_id, StripPrefix(memo, MKDIR_PREFIX))
        ELSE IF StartsWith(memo, TOUCH_PREFIX) /\ Len(parts) = 3
        THEN handle_touch_command(user_id, parts[2], parts[3])
        ELSE IF StartsWith(memo, TOUCH_PREFIX)
        THEN Returns(Err("index out of bounds", <<>>))
        ELSE Returns(UnknownCommand)

handle_authenticated_command(msg) ==
    LET user_id == msg.sender_address
        memo == msg.memo_text
        parts == SplitN(3, memo, " ")
    IN  IF StartsWith(memo, LS_PREFIX)
        THEN Returns(handle_ls_command(user_id, StripPrefix(memo, LS_PREFIX)))
        ELSE IF StartsWith(memo, CAT_PREFIX)
        THEN Returns(handle_cat_command(user_id, StripPrefix(memo, CAT_PREFIX)))
        ELSE IF StartsWith(memo, MKDIR_PREFIX)
        THEN handle_mkdir_command(user_id, StripPrefix(memo, MKDIR_PREFIX))
        ELSE IF StartsWith(memo, TOUCH_PREFIX) /\ Len(parts) >= 2
        THEN handle_touch_command(user_id, parts[2],
                                  IF Len(parts) = 3 THEN parts[3] ELSE <<>>)
        ELSE Returns(UnknownCommand)

AuthFailed == Err("Authentication failed. Invalid signature or challenge.", <<>>)

\* handle_authentication without the look-up of the pending challenge
handle_authentication_unchallenged(msg) ==
    LET found == session_get_reply_address(auth_sessions, msg.sender_address)
        reply_address == IF IsSome(found) THEN Unwrap(found) ELSE msg.sender_address
    IN
    IF IsSome(msg.signature)
    THEN [Returns(Ok("Authentication successful. Session ID: {}",
                     generate_session_id(msg.sender_address, clock)))
            EXCEPT !.verified_users = Insert(@, msg.sender_address, reply_address),
                   !.session_mappings =
                       Insert(@, generate_session_id(msg.sender_address, clock),
                              reply_address),
                   !.pending_challenges = Remove(@, msg.sender_address)]
    ELSE Returns(AuthFailed)

\* handle_authentication removing the pending challenge before it looks at
\* the signature
handle_authentication_consuming(msg) ==
    LET found == session_get_reply_address(auth_sessions, msg.sender_address)
        reply_address == IF IsSome(found) THEN Unwrap(found) ELSE msg.sender_address
    IN
    IF IsSome(Get(pending_challenges, msg.sender_address)) /\ IsSome(msg.signature)
    THEN [Returns(Ok("Authentication successful. Session ID: {}",
                     generate_session_id(msg.sender_address, clock)))
            EXCEPT !.verified_users = Insert(@, msg.sender_address, reply_address),
                   !.session_mappings =
                       Insert(@, generate_session_id(msg.sender_address, clock),
                              reply_address),
                   !.pending_challenges = Remove(@, msg.sender_address)]
    ELSE [Returns(AuthFailed)
            EXCEPT !.pending_challenges = Remove(@, msg.sender_address)]

\* handle_authentication leaving the pending challenge in place on success
handle_authentication_keeping(msg) ==
    LET found == session_get_reply_address(auth_sessions, msg.sender_address)
        reply_address == IF IsSome(found) THEN Unwrap(found) ELSE msg.sender_address
    IN
    IF IsSome(Get(pending_challenges, msg.sender_address)) /\ IsSome(msg.signature)
    THEN [Returns(Ok("Authentication successful. Session ID: {}",
                     generate_session_id(msg.sender_address, clock)))
            EXCEPT !.verified_users = Insert(@, msg.sender_address, reply_address),
                   !.session_mappings =
                       Insert(@, generate_session_id(msg.sender_address, clock),
                              reply_address)]
    ELSE Returns(AuthFailed)

handle_authentication(msg) ==
    LET parts == SplitN(2, msg.memo_text, ":")
        session_id == generate_session_id(msg.sender_address, clock)
        found == session_get_reply_address(auth_sessions, msg.sender_address)
        reply_address == IF IsSome(found) THEN Unwrap(found) ELSE msg.sender_address
    IN  IF Len(parts) # 2
        THEN Returns(Err("Invalid auth format. Use AUTH:<signed_challenge>", <<>>))
        ELSE IF IsSome(Get(pending_challenges, msg.sender_address))
                /\ IsSome(msg.signature)
        THEN [Returns(Ok("Authentication successful. Session ID: {}", session_id))
                EXCEPT !.verified_users = Insert(@, msg.sender_address, reply_address),
                       !.session_mappings = Insert(@, session_id, reply_address),
                       !.pending_challenges = Remove(@, msg.sender_address)]
        ELSE Returns(AuthFailed)

\* handle_registration leaving a challenge that is already pending in place
handle_registration_keeping(msg) ==
    LET parts == SplitN(2, msg.memo_text, ":")
        started == initiate_authentication(auth_sessions, msg.sender_address,
                                           parts[2], clock)
    IN  IF Len(parts) # 2
        THEN Returns(Err("Invalid registration format. Use REGISTER:<reply_address>",
                         <<>>))
        ELSE [Returns(Ok("Registration initiated. Please sign and send: AUTH:{}",
                         started.challenge))
                EXCEPT !.auth_sessions = started.sessions,
                       !.pending_challenges =
                           IF msg.sender_address \in DOMAIN @ THEN @
                           ELSE Insert(@, msg.sender_address, started.challenge)]

\* handle_registration taking the sender out of verified_users until its
\* next AUTH
handle_registration_revoking(msg) ==
    LET parts == SplitN(2, msg.memo_text, ":")
        started == initiate_authentication(auth_sessions, msg.sender_address,
                                           parts[2], clock)
    IN  IF Len(parts) # 2
        THEN Returns(Err("Invalid registration format. Use REGISTER:<reply_address>",
                         <<>>))
        ELSE [Returns(Ok("Registration initiated. Please sign and send: AUTH:{}",
                         started.challenge))
                EXCEPT !.auth_sessions = started.sessions,
                       !.verified_users = Remove(@, msg.sender_address),
                       !.pending_challenges =
                           Insert(@, msg.sender_address, started.challenge)]

handle_registration(msg) ==
    LET parts == SplitN(2, msg.memo_text, ":")
        started == initiate_authentication(auth_sessions, msg.sender_address,
                                           parts[2], clock)
    IN  IF Len(parts) # 2
        THEN Returns(Err("Invalid registration format. Use REGISTER:<reply_address>",
                         <<>>))
        ELSE [Returns(Ok("Registration initiated. Please sign and send: AUTH:{}",
                         started.challenge))
                EXCEPT !.auth_sessions = started.sessions,
                       !.pending_challenges =
                           Insert(@, msg.sender_address, started.challenge)]

\* verify_sender_identity without the test of the signature
verify_sender_identity_unsigned(msg) ==
    msg.sender_address \in DOMAIN verified_users

verify_sender_identity(msg) ==
    msg.sender_address \in DOMAIN verified_users /\ IsSome(msg.signature)

AuthenticationRequired ==
    Err("Authentication required. Send REGISTER:<reply_address> first.", <<>>)

\* Coordinator::process_incoming_message; route records the branch taken
\* process_incoming_message without the test of verify_sender_identity: every
\* memo that is neither REGISTER nor AUTH is dispatched as a command
process_incoming_message_ungated(msg) ==
    IF StartsWith(msg.memo_text, REGISTER_PREFIX)
    THEN [handle_registration(msg) EXCEPT !.route = "registration"]
    ELSE IF StartsWith(msg.memo_text, AUTH_PREFIX)
    THEN [handle_authentication(msg) EXCEPT !.route = "authentication"]
    ELSE [handle_authenticated_command(msg) EXCEPT !.route = "command"]

process_incoming_message(msg) ==
    IF StartsWith(msg.memo_text, REGISTER_PREFIX)
    THEN [handle_registration(msg) EXCEPT !.route = "registration"]
    ELSE IF StartsWith(msg.memo_text, AUTH_PREFIX)
    THEN [handle_authentication(msg) EXCEPT !.route = "authentication"]
    ELSE IF verify_sender_identity(msg)
    THEN [handle_authenticated_command(msg) EXCEPT !.route = "command"]
    ELSE [Returns(AuthenticationRequired) EXCEPT !.route = "rejected"]

get_reply_address_by_session(session_id) == Get(session_mappings, session_id)

get_reply_address(user_id) == Get(verified_users, user_id)

is_user_verified(user_id) == user_id \in DOMAIN verified_users

(***************************************************************************)
(* The state machine.                                                      *)
(***************************************************************************)
\* Coordinator::new(SessionTimeout), at time 0, before any message
Init ==
    /\ verified_users = EmptyMap
    /\ pending_challenges = EmptyMap
    /\ session_mappings = EmptyMap
    /\ auth_sessions = EmptyMap
    /\ filesystem = FileSystemNew(COORDINATOR, 0)
    /\ clock = 0
    /\ message = [sender_address |-> <<>>, memo_text |-> <<>>, signature |-> None]
    /\ route = "new"
    /\ reply = Ok("", <<>>)
    /\ nmsgs = 0
    /\ registered_at = EmptyMap
    /\ authenticated_at = EmptyMap
    /\ issued_challenges = {}
    /\ issued_sessions = {}
    /\ call = [n |-> 0, grants |-> 0, op |-> "new", path |-> <<>>, user |-> <<>>,
               content |-> <<>>, before |-> FileSystemNew(COORDINATOR, 0)]
    /\ daemon = [pc |-> "poll", polled |-> <<>>, batch |-> <<>>, handled |-> <<>>,
                 polls |-> 0, errors |-> 0, last |-> "start"]
    /\ poller = [pc |-> "idle", attempts |-> 0, delay_ms |-> 0, attempt |-> 0,
                 last_error |-> None, result |-> None, trace |-> <<>>]

\* the coordinator's fields become those of out, the value a handler
\* returned for msg, and the histories record what msg did
Becomes(msg, out) ==
    /\ verified_users' = out.verified_users
    /\ pending_challenges' = out.pending_challenges
    /\ session_mappings' = out.session_mappings
    /\ auth_sessions' = out.auth_sessions
    /\ filesystem' = out.filesystem
    /\ reply' = out.reply
    /\ route' = out.route
    /\ registered_at' =
         IF out.route = "registration" /\ out.reply.ok
         THEN Insert(registered_at, msg.sender_address,
                     [at |-> clock,
                      reply_address |-> StripPrefix(msg.memo_text, REGISTER_PREFIX)])
         ELSE registered_at
    /\ issued_challenges' =
         IF out.route = "registration" /\ out.reply.ok
         THEN issued_challenges \cup {<<msg.sender_address, out.reply.arg>>}
         ELSE issued_challenges
    /\ authenticated_at' =
         IF out.route = "authentication" /\ out.reply.ok
         THEN Insert(authenticated_at, msg.sender_address, clock)
         ELSE authenticated_at
    /\ issued_sessions' =
         IF out.route = "authentication" /\ out.reply.ok
         THEN issued_sessions \cup {<<msg.sender_address, out.reply.arg>>}
         ELSE issued_sessions

\* one call of Coordinator::process_incoming_message
ProcessIncomingMessage(msg) ==
    /\ Becomes(msg, process_incoming_message(msg))
    /\ message' = msg
    /\ nmsgs' = nmsgs + 1
    /\ UNCHANGED <<clock, call, daemon, poller>>

\* one call of Coordinator::cleanup_expired_sessions
CleanupExpiredSessions ==
    /\ auth_sessions' = auth_cleanup_expired_sessions(auth_sessions, clock, SessionTimeout)
    /\ route' = "cleanup"
    /\ UNCHANGED <<verified_users, pending_challenges, session_mappings, filesystem,
                   clock, message, reply, nmsgs, registered_at, authenticated_at,
                   issued_challenges, issued_sessions, call,
                   daemon, poller>>

\* time passes between two calls: the wall clock moves on to some later
\* second, up to max
TickTo(max) ==
    /\ \E t \in (clock + 1)..max : clock' = t
    /\ UNCHANGED <<verified_users, pending_challenges, session_mappings, auth_sessions,
                   filesystem, message, route, reply, nmsgs, registered_at,
                   authenticated_at, issued_challenges, issued_sessions, call,
                   daemon, poller>>

Tick == TickTo(MaxClock)

\* a client sends REGISTER or AUTH, signed or not
ProcessSession ==
    /\ nmsgs < MaxMsgs
    /\ \E sender \in Senders : \E memo \in SessionMemos(sender, Replies) :
       \E sig \in Signatures :
          ProcessIncomingMessage(Message(sender, memo, sig))

\* a client sends a command, signed or not
ProcessCommand ==
    /\ nmsgs < MaxMsgs
    /\ \E sender \in Senders : \E memo \in CommandMemos : \E sig \in Signatures :
          ProcessIncomingMessage(Message(sender, memo, sig))

Next ==
    \/ ProcessSession
    \/ ProcessCommand
    \/ CleanupExpiredSessions
    \/ Tick

Spec == Init /\ [][Next]_vars

(***************************************************************************)
(* SpecSessions: the coordinator under signed REGISTER and AUTH messages   *)
(* only, over a longer run.                                                *)
(***************************************************************************)
ProcessSignedSession ==
    /\ nmsgs < MaxSessionMsgs
    /\ \E sender \in SessionSenders : \E memo \in SessionMemos(sender, Replies) :
          ProcessIncomingMessage(Message(sender, memo, Some(<<"s", "i", "g">>)))

NextSessions ==
    \/ ProcessSignedSession
    \/ CleanupExpiredSessions
    \/ Tick

SpecSessions == Init /\ [][NextSessions]_vars

(***************************************************************************)
(* SpecLongRun: the coordinator under signed REGISTER:r and AUTH:x         *)
(* messages, over a stretch of time in which the number of digits of the   *)
(* clock changes.                                                          *)
(***************************************************************************)
ProcessRegisterOrAuth ==
    /\ nmsgs < MaxLongRunMsgs
    /\ \E sender \in SessionSenders :
       \E memo \in {REGISTER_PREFIX \o <<"r">>, AUTH_PREFIX \o <<"x">>} :
          ProcessIncomingMessage(Message(sender, memo, Some(<<"s", "i", "g">>)))

LongTick == TickTo(MaxLongRunClock)

NextLongRun ==
    \/ ProcessRegisterOrAuth
    \/ LongTick

SpecLongRun == Init /\ [][NextLongRun]_vars

(***************************************************************************)
(* Direct calls on the filesystem: FileSystem's methods and the pub fields *)
(* of Permissions.                                                         *)
(***************************************************************************)
\* the filesystem becomes out.fs and the Result out.res is returned, after
\* the call op(path, user, content)
FsCall(op, path, user, content, out) ==
    /\ filesystem' = out.fs
    /\ reply' = out.res
    /\ call' = [call EXCEPT !.n = @ + 1, !.op = op, !.path = path, !.user = user,
                            !.content = content, !.before = filesystem]
    /\ UNCHANGED <<verified_users, pending_challenges, session_mappings, auth_sessions,
                   clock, message, route, nmsgs, registered_at, authenticated_at,
                   issued_challenges, issued_sessions, daemon, poller>>

\* one call of FileSystem::create_directory
CreateDirectory(path, owner) ==
    FsCall("create_directory", path, owner, <<>>,
           create_directory(filesystem, path, owner, clock))

\* one call of FileSystem::create_file
CreateFile(path, content, owner) ==
    FsCall("create_file", path, owner, content,
           create_file(filesystem, path, content, owner, clock))

\* one call of FileSystem::remove
RemovePath(path, user) ==
    FsCall("remove", path, user, <<>>, remove(filesystem, path, user, clock))

\* the permissions of the node at path become perms
SetPermissions(op, path, user, perms) ==
    /\ filesystem' = write_path(filesystem, path,
                         [Unwrap(resolve_path(filesystem, path))
                             EXCEPT !.permissions = perms])
    /\ call' = [call EXCEPT !.grants = @ + 1, !.op = op, !.path = path,
                            !.user = user, !.content = <<>>, !.before = filesystem]
    /\ UNCHANGED <<verified_users, pending_challenges, session_mappings, auth_sessions,
                   clock, message, route, reply, nmsgs, registered_at, authenticated_at,
                   issued_challenges, issued_sessions, daemon, poller>>

\* resolve_path_mut(path).permissions.add_write_permission(user), as
\* filesystem.root.permissions.add_write_permission(..) in test_mkdir_command
GrantWrite(path, user) ==
    /\ IsSome(resolve_path(filesystem, path))
    /\ SetPermissions("add_write_permission", path, user,
           add_write_permission(Unwrap(resolve_path(filesystem, path)).permissions,
                                user))

\* resolve_path_mut(path).permissions.public_write = flag
SetPublicWrite(path, flag) ==
    /\ IsSome(resolve_path(filesystem, path))
    /\ SetPermissions("public_write", path, <<>>,
           [Unwrap(resolve_path(filesystem, path)).permissions
               EXCEPT !.public_write = flag])

\* resolve_path_mut(path).permissions.add_read_permission(user)
GrantRead(path, user) ==
    /\ IsSome(resolve_path(filesystem, path))
    /\ SetPermissions("add_read_permission", path, user,
           add_read_permission(Unwrap(resolve_path(filesystem, path)).permissions,
                               user))

\* resolve_path_mut(path).permissions.public_read = flag
SetPublicRead(path, flag) ==
    /\ IsSome(resolve_path(filesystem, path))
    /\ SetPermissions("public_read", path, <<>>,
           [Unwrap(resolve_path(filesystem, path)).permissions
               EXCEPT !.public_read = flag])

(***************************************************************************)
(* SpecCommands: the coordinator under messages, with write permission on  *)
(* the root granted to senders from outside.                               *)
(***************************************************************************)
GrantRootWrite ==
    /\ call.grants < MaxRootGrants
    /\ \E sender \in Senders : GrantWrite(<<"/">>, sender)

NextCommands ==
    \/ ProcessSession
    \/ ProcessCommand
    \/ GrantRootWrite

SpecCommands == Init /\ [][NextCommands]_vars

(***************************************************************************)
(* SpecTouch: the coordinator under signed REGISTER, AUTH, touch and cat   *)
(* messages, with write permission on the root granted from outside.  The  *)
(* message that last changed the tree is kept in call, with the tree       *)
(* before it.                                                              *)
(***************************************************************************)
\* call after a message of sender with text memo that left the tree as after
Recorded(sender, memo, after) ==
    IF after = filesystem THEN call
    ELSE [call EXCEPT !.op = "process_incoming_message", !.path = <<>>,
                      !.user = sender, !.content = memo, !.before = filesystem]

\* the call record after msg was handled with outcome out
Records(msg, out) ==
    call' = Recorded(msg.sender_address, msg.memo_text, out.filesystem)

\* one call of Coordinator::process_incoming_message
ProcessRecorded(msg) ==
    /\ Becomes(msg, process_incoming_message(msg))
    /\ Records(msg, process_incoming_message(msg))
    /\ message' = msg
    /\ nmsgs' = nmsgs + 1
    /\ UNCHANGED <<clock, daemon, poller>>

\* touch /a x, touch /a y and cat /a
TouchMemos ==
    { TOUCH_PREFIX \o <<"/", "a", " ", "x">>,
      TOUCH_PREFIX \o <<"/", "a", " ", "y">>,
      CAT_PREFIX \o <<"/", "a">> }

TouchSession ==
    /\ nmsgs < MaxTouchMsgs
    /\ \E sender \in Senders :
       \E memo \in {REGISTER_PREFIX \o <<"r">>, AUTH_PREFIX \o <<"x">>} :
          ProcessRecorded(Message(sender, memo, Some(<<"s", "i", "g">>)))

TouchCommand ==
    /\ nmsgs < MaxTouchMsgs
    /\ \E sender \in Senders : \E memo \in TouchMemos :
          ProcessRecorded(Message(sender, memo, Some(<<"s", "i", "g">>)))

NextTouch ==
    \/ TouchSession
    \/ TouchCommand
    \/ GrantRootWrite

SpecTouch == Init /\ [][NextTouch]_vars

(***************************************************************************)
(* SpecFs: the filesystem under direct calls of create_directory,          *)
(* create_file and remove, with changes of permissions in between.         *)
(***************************************************************************)
\* the actors of the calls: the owner of the root, and another identity
FsUsers == {COORDINATOR, <<"s">>}

\* the paths of the calls of SpecFs: two children of the root and a grandchild
Paths == { <<"/", "a">>, <<"/", "b">>, <<"/", "a", "/", "b">> }

\* the paths of the calls of SpecPaths: the root, the empty path, a doubled
\* slash, a child of the root with and without a trailing slash, and a
\* grandchild behind a doubled separator
OddPaths ==
    { <<"/">>, <<>>, <<"/", "/">>, <<"/", "a">>, <<"/", "a", "/">>,
      <<"/", "a", "/", "/", "b">> }

\* the paths of the nodes whose permissions are changed
GrantPaths == { <<"/">>, <<"/", "a">> }

\* the contents written by create_file in SpecPaths
Contents == { <<"x">>, <<"y">> }

\* some actor calls create_directory on one of paths
CreateDirectoryIn(paths) ==
    /\ call.n < MaxFsCalls
    /\ \E path \in paths : \E owner \in FsUsers : CreateDirectory(path, owner)

\* some actor calls create_file on one of paths with one of contents
CreateFileIn(paths, contents) ==
    /\ call.n < MaxFsCalls
    /\ \E path \in paths : \E content \in contents : \E owner \in FsUsers :
          CreateFile(path, content, owner)

\* some actor calls remove on one of paths
RemoveIn(paths) ==
    /\ call.n < MaxFsCalls
    /\ \E path \in paths : \E user \in FsUsers : RemovePath(path, user)

FsCreateDirectory == CreateDirectoryIn(Paths)

FsCreateFile == CreateFileIn(Paths, {<<"x">>})

FsRemove == RemoveIn(Paths)

FsGrantWrite ==
    /\ call.grants < MaxFsGrants
    /\ \E path \in GrantPaths : \E user \in FsUsers : GrantWrite(path, user)

FsSetPublicWrite ==
    /\ call.grants < MaxFsGrants
    /\ \E path \in GrantPaths : \E flag \in BOOLEAN : SetPublicWrite(path, flag)

FsTick == TickTo(MaxFsClock)

NextFs ==
    \/ FsCreateDirectory
    \/ FsCreateFile
    \/ FsRemove
    \/ FsGrantWrite
    \/ FsSetPublicWrite
    \/ FsTick

SpecFs == Init /\ [][NextFs]_vars

(***************************************************************************)
(* SpecPaths: the filesystem under direct calls with the root's spellings, *)
(* trailing slashes and doubled separators as paths.                       *)
(***************************************************************************)
PathsCreateDirectory == CreateDirectoryIn(OddPaths)

PathsCreateFile == CreateFileIn(OddPaths, Contents)

PathsRemove == RemoveIn(OddPaths)

NextPaths ==
    \/ PathsCreateDirectory
    \/ PathsCreateFile
    \/ PathsRemove
    \/ FsTick

SpecPaths == Init /\ [][NextPaths]_vars

(***************************************************************************)
(* SpecNodes: SpecPaths with direct calls of FileNode::update_content on   *)
(* the nodes found by resolve_path_mut.                                    *)
(***************************************************************************)
\* the Result updated.res and the filesystem with updated.node at path
WrittenAt(path, updated) ==
    [res |-> updated.res, fs |-> write_path(filesystem, path, updated.node)]

\* resolve_path_mut(path).update_content(content)
UpdateContent(path, content) ==
    /\ IsSome(resolve_path(filesystem, path))
    /\ FsCall("update_content", path, <<>>, content,
              WrittenAt(path, update_content(Unwrap(resolve_path(filesystem, path)),
                                             content, clock)))

NodesUpdateContent ==
    /\ call.n < MaxFsCalls
    /\ \E path \in OddPaths : \E content \in Contents : UpdateContent(path, content)

NextNodes ==
    \/ PathsCreateDirectory
    \/ PathsCreateFile
    \/ PathsRemove
    \/ NodesUpdateContent
    \/ FsTick

SpecNodes == Init /\ [][NextNodes]_vars

(***************************************************************************)
(* SpecRelative: the filesystem under direct calls with paths that have no *)
(* leading slash or have a ".." segment.                                   *)
(***************************************************************************)
\* the paths of the calls of SpecRelative: a child of the root and a
\* grandchild without the leading slash, ".." below the root and below a
\* child, and the child spelled with its leading slash
RelativePaths ==
    { <<"a">>, <<"a", "/", "b">>, <<"/", ".", ".">>,
      <<"/", "a", "/", ".", ".">>, <<"/", "a">> }

RelativeCreateDirectory == CreateDirectoryIn(RelativePaths)

RelativeCreateFile == CreateFileIn(RelativePaths, {<<"x">>})

RelativeRemove == RemoveIn(RelativePaths)

NextRelative ==
    \/ RelativeCreateDirectory
    \/ RelativeCreateFile
    \/ RelativeRemove
    \/ FsTick

SpecRelative == Init /\ [][NextRelative]_vars

(***************************************************************************)
(* SpecListing: the filesystem under direct calls that create and remove   *)
(* children of the root in any order, one name a prefix of another.        *)
(***************************************************************************)
\* the paths of the calls of SpecListing
ListingPaths == { <<"/", "a">>, <<"/", "a", ".">>, <<"/", "b">> }

ListingCreateDirectory == CreateDirectoryIn(ListingPaths)

ListingCreateFile == CreateFileIn(ListingPaths, {<<"x">>})

ListingRemove == RemoveIn(ListingPaths)

NextListing ==
    \/ ListingCreateDirectory
    \/ ListingCreateFile
    \/ ListingRemove
    \/ FsTick

SpecListing == Init /\ [][NextListing]_vars

(***************************************************************************)
(* SpecGrants: the filesystem under direct calls that create a child of    *)
(* the root and change the permissions of the root and of the child: read  *)
(* and write grants, and the two public flags.                             *)
(***************************************************************************)
GrantsCreateDirectory == CreateDirectoryIn({ <<"/", "a">> })

GrantsGrantRead ==
    /\ call.grants < MaxGrantCalls
    /\ \E path \in GrantPaths : \E user \in FsUsers : GrantRead(path, user)

GrantsGrantWrite ==
    /\ call.grants < MaxGrantCalls
    /\ \E path \in GrantPaths : \E user \in FsUsers : GrantWrite(path, user)

GrantsSetPublicRead ==
    /\ call.grants < MaxGrantCalls
    /\ \E path \in GrantPaths : \E flag \in BOOLEAN : SetPublicRead(path, flag)

GrantsSetPublicWrite ==
    /\ call.grants < MaxGrantCalls
    /\ \E path \in GrantPaths : \E flag \in BOOLEAN : SetPublicWrite(path, flag)

NextGrants ==
    \/ GrantsCreateDirectory
    \/ GrantsGrantRead
    \/ GrantsGrantWrite
    \/ GrantsSetPublicRead
    \/ GrantsSetPublicWrite

SpecGrants == Init /\ [][NextGrants]_vars

(***************************************************************************)
(* SpecRead: the coordinator under signed REGISTER, AUTH, ls and cat       *)
(* messages of one sender, with the tree set up from outside through the   *)
(* coordinator's filesystem field, as test_ls_command does: children of    *)
(* the root created by the root's owner, public_read switched off, and the *)
(* content of a file taken away.                                           *)
(***************************************************************************)
\* the paths of the children created in SpecRead
ReadPaths == { <<"/", "a">>, <<"/", "b">> }

\* ls and cat on the root, on the two children and on a path never created
ReadMemos ==
    { LS_PREFIX \o <<"/">>, LS_PREFIX \o <<"/", "a">>, LS_PREFIX \o <<"/", "z">>,
      CAT_PREFIX \o <<"/">>, CAT_PREFIX \o <<"/", "a">>, CAT_PREFIX \o <<"/", "z">> }

\* resolve_path_mut(path).content = None, on a file
ClearContent(path) ==
    /\ IsSome(resolve_path(filesystem, path))
    /\ Unwrap(resolve_path(filesystem, path)).file_type = File
    /\ filesystem' = write_path(filesystem, path,
                         [Unwrap(resolve_path(filesystem, path))
                             EXCEPT !.content = None])
    /\ call' = [call EXCEPT !.grants = @ + 1, !.op = "content", !.path = path,
                            !.user = <<>>, !.content = <<>>, !.before = filesystem]
    /\ UNCHANGED <<verified_users, pending_challenges, session_mappings, auth_sessions,
                   clock, message, route, reply, nmsgs, registered_at, authenticated_at,
                   issued_challenges, issued_sessions, daemon, poller>>

ReadSession ==
    /\ nmsgs < MaxReadMsgs
    /\ \E memo \in {REGISTER_PREFIX \o <<"r">>, AUTH_PREFIX \o <<"x">>} :
          ProcessIncomingMessage(Message(<<"s">>, memo, Some(<<"s", "i", "g">>)))

ReadCommand ==
    /\ nmsgs < MaxReadMsgs
    /\ \E memo \in ReadMemos :
          ProcessIncomingMessage(Message(<<"s">>, memo, Some(<<"s", "i", "g">>)))

ReadCreateDirectory ==
    /\ call.n < MaxReadCalls
    /\ \E path \in ReadPaths : CreateDirectory(path, COORDINATOR)

ReadCreateFile ==
    /\ call.n < MaxReadCalls
    /\ \E path \in ReadPaths : CreateFile(path, <<"x">>, COORDINATOR)

ReadSetPublicRead ==
    /\ call.grants < MaxReadEdits
    /\ \E path \in GrantPaths : SetPublicRead(path, FALSE)

ReadClearContent ==
    /\ call.grants < MaxReadEdits
    /\ \E path \in ReadPaths : ClearContent(path)

NextRead ==
    \/ ReadSession
    \/ ReadCommand
    \/ ReadCreateDirectory
    \/ ReadCreateFile
    \/ ReadSetPublicRead
    \/ ReadClearContent

SpecRead == Init /\ [][NextRead]_vars

(***************************************************************************)
(* SpecTotal: the coordinator under messages, signed or not, whose memos   *)
(* are empty, a bare prefix, a verb without its fields, or no command.     *)
(***************************************************************************)
\* the empty text, the prefixes alone, the verbs without their space, touch
\* with a path and no content, a text that is no command, and the memos that
\* register, authenticate and create a directory
TotalMemos ==
    { <<>>, REGISTER_PREFIX, AUTH_PREFIX, LS_PREFIX, CAT_PREFIX, MKDIR_PREFIX,
      TOUCH_PREFIX, <<"l", "s">>, <<"t", "o", "u", "c", "h">>,
      TOUCH_PREFIX \o <<"/", "a">>, MKDIR_PREFIX \o <<"/", "a">>,
      <<"A", "U", "T", "H">>, <<"h", "i">>, REGISTER_PREFIX \o <<"r">> }

TotalProcess ==
    /\ nmsgs < MaxTotalMsgs
    /\ \E sender \in Senders : \E memo \in TotalMemos : \E sig \in Signatures :
          ProcessIncomingMessage(Message(sender, memo, sig))

NextTotal ==
    \/ TotalProcess

SpecTotal == Init /\ [][NextTotal]_vars

(***************************************************************************)
(* SpecDaemon: the loop of the coordinator daemon (bin/coordinator.rs):    *)
(* poll, then handle the messages polled one after the other.  What        *)
(* poll_for_new_messages returns is chosen from outside; whether           *)
(* process_and_respond returns Ok or Err is chosen as well, after the       *)
(* message went through process_incoming_message.                          *)
(***************************************************************************)
\* the messages a poll may return: a registration, an authentication and a
\* command of one sender, and a text that is answered with an error
DaemonMessages ==
    { Message(<<"s">>, REGISTER_PREFIX \o <<"r">>, Some(<<"s", "i", "g">>)),
      Message(<<"s">>, AUTH_PREFIX \o <<"x">>, Some(<<"s", "i", "g">>)),
      Message(<<"s">>, LS_PREFIX \o <<"/">>, Some(<<"s", "i", "g">>)),
      Message(<<"s">>, <<"h", "i">>, None) }

\* the batches a poll may return
Batches == UNION { [1..n -> DaemonMessages] : n \in 0..MaxBatch }

\* the for loop stopping at the first message whose handling failed
RemainingUntilError(batch, ok) == IF ok THEN Tail(batch) ELSE <<>>

\* the for loop over the messages polled: what is left of batch after its
\* first message was handled with outcome ok
Remaining(batch, ok) == Tail(batch)

\* the loop after poll_for_new_messages returned Ok(messages): back to the
\* poll if there are none, else into the for loop
Polled(d, messages) ==
    [d EXCEPT !.polls = @ + 1, !.polled = messages, !.batch = messages,
              !.handled = <<>>,
              !.pc = IF messages = <<>> THEN "poll" ELSE "process",
              !.last = IF messages = <<>> THEN "empty" ELSE "polled"]

\* the loop after process_and_respond returned for the first message of the
\* batch, with Ok or with Err
Handled(d, ok) ==
    [d EXCEPT !.handled = Append(@, [message |-> Head(d.batch), ok |-> ok]),
              !.batch = Remaining(@, ok),
              !.pc = IF Remaining(d.batch, ok) = <<>> THEN "poll" ELSE "process",
              !.last = IF ok THEN "processed" ELSE "process_error"]

\* poll_for_new_messages returns Ok(messages)
DaemonPoll ==
    /\ daemon.pc = "poll"
    /\ daemon.polls < MaxPolls
    /\ \E messages \in Batches : daemon' = Polled(daemon, messages)
    /\ UNCHANGED <<verified_users, pending_challenges, session_mappings, auth_sessions,
                   filesystem, clock, message, route, reply, nmsgs, registered_at,
                   authenticated_at, issued_challenges, issued_sessions, call, poller>>

\* poll_for_new_messages returns Err: the error is printed and the loop goes
\* on with the next poll
DaemonPollError ==
    /\ daemon.pc = "poll"
    /\ daemon.polls < MaxPolls
    /\ daemon' = [daemon EXCEPT !.polls = @ + 1, !.errors = @ + 1,
                                !.last = "poll_error"]
    /\ UNCHANGED <<verified_users, pending_challenges, session_mappings, auth_sessions,
                   filesystem, clock, message, route, reply, nmsgs, registered_at,
                   authenticated_at, issued_challenges, issued_sessions, call, poller>>

\* process_and_respond on the next message of the batch
DaemonProcess ==
    /\ daemon.pc = "process"
    /\ Becomes(Head(daemon.batch), process_incoming_message(Head(daemon.batch)))
    /\ message' = Head(daemon.batch)
    /\ nmsgs' = nmsgs + 1
    /\ \E ok \in BOOLEAN : daemon' = Handled(daemon, ok)
    /\ UNCHANGED <<clock, call, poller>>

NextDaemon ==
    \/ DaemonPoll
    \/ DaemonPollError
    \/ DaemonProcess

SpecDaemon == Init /\ [][NextDaemon]_vars

(***************************************************************************)
(* SpecRetry: one call of poll_with_retry (bin/zatboard.rs), an iteration  *)
(* of its for loop at a time.  What client.poll_once returns is chosen     *)
(* from outside.  Every iteration that can be made is made in the end.     *)
(***************************************************************************)
\* the results of client.poll_once: Ok(messages) and Err(e)
PollOk == { Ok("messages", batch) : batch \in {<<>>, <<"m">>, <<"m", "n">>} }

PollErr == { Err("e1", <<>>), Err("e2", <<>>) }

\* u8::max
Max(a, b) == IF a >= b THEN a ELSE b

\* the test around the sleep, without it: a sleep after every failed attempt
SleepsAlways(attempt, attempts) == TRUE

\* attempt < attempts.max(1): a failed attempt is followed by a sleep
Sleeps(attempt, attempts) == attempt < Max(attempts, 1)

\* what the call has done so far, followed by a poll that returned polled
PollTraced(p, polled) == Append(p.trace, [kind |-> "poll", returned |-> polled])

\* what a failed attempt has done: the poll, and the sleep if one follows
FailTraced(p, polled) ==
    IF Sleeps(p.attempt, p.attempts)
    THEN Append(PollTraced(p, polled), [kind |-> "sleep", ms |-> p.delay_ms])
    ELSE PollTraced(p, polled)

\* poll_with_retry(client, attempts, delay_ms) is called
RetryCall ==
    /\ poller.pc = "idle"
    /\ \E attempts \in 0..MaxAttempts : \E delay_ms \in 0..MaxDelay :
          poller' = [poller EXCEPT !.pc = "poll", !.attempts = attempts,
                                   !.delay_ms = delay_ms, !.attempt = 1]
    /\ UNCHANGED <<verified_users, pending_challenges, session_mappings, auth_sessions,
                   filesystem, clock, message, route, reply, nmsgs, registered_at,
                   authenticated_at, issued_challenges, issued_sessions, call, daemon>>

\* an iteration whose poll_once returns Ok: the messages are returned
RetryAttemptOk ==
    /\ poller.pc = "poll"
    /\ \E polled \in PollOk :
          poller' = [poller EXCEPT !.pc = "done", !.result = Some(polled),
                                   !.trace = PollTraced(poller, polled)]
    /\ UNCHANGED <<verified_users, pending_challenges, session_mappings, auth_sessions,
                   filesystem, clock, message, route, reply, nmsgs, registered_at,
                   authenticated_at, issued_challenges, issued_sessions, call, daemon>>

\* an iteration whose poll_once returns Err: the error is kept; a sleep and
\* the next iteration follow, or, after the last iteration, the return of
\* the error kept
RetryAttemptErr ==
    /\ poller.pc = "poll"
    /\ \E polled \in PollErr :
          poller' = [poller EXCEPT
                        !.last_error = Some(polled),
                        !.trace = FailTraced(poller, polled),
                        !.attempt = IF @ < Max(poller.attempts, 1) THEN @ + 1 ELSE @,
                        !.pc = IF poller.attempt < Max(poller.attempts, 1)
                               THEN "poll" ELSE "done",
                        !.result = IF poller.attempt < Max(poller.attempts, 1)
                                   THEN None ELSE Some(polled)]
    /\ UNCHANGED <<verified_users, pending_challenges, session_mappings, auth_sessions,
                   filesystem, clock, message, route, reply, nmsgs, registered_at,
                   authenticated_at, issued_challenges, issued_sessions, call, daemon>>

NextRetry ==
    \/ RetryCall
    \/ RetryAttemptOk
    \/ RetryAttemptErr

SpecRetry == Init /\ [][NextRetry]_vars /\ WF_vars(NextRetry)

(***************************************************************************)
(* SpecReregister: the coordinator under signed messages of two senders    *)
(* that register, authenticate, register again with another reply address  *)
(* and send a command, with time passing in between.                       *)
(***************************************************************************)
\* REGISTER with either reply address, AUTH, and ls /
ReregisterMemos ==
    { REGISTER_PREFIX \o r : r \in Replies }
    \cup { AUTH_PREFIX \o <<"x">>, LS_PREFIX \o <<"/">> }

ReregisterProcess ==
    /\ nmsgs < MaxReregisterMsgs
    /\ \E sender \in Senders : \E memo \in ReregisterMemos :
          ProcessIncomingMessage(Message(sender, memo, Some(<<"s", "i", "g">>)))

ReregisterTick == TickTo(MaxReregisterClock)

NextReregister ==
    \/ ReregisterProcess
    \/ ReregisterTick

SpecReregister == Init /\ [][NextReregister]_vars

(***************************************************************************)
(* SpecEffects: the coordinator under messages of one sender, signed or    *)
(* not, of every kind of memo, with write permission on the root granted   *)
(* from outside, so that commands that write and commands that read meet a *)
(* tree that has changed.                                                  *)
(***************************************************************************)
EffectsMemos ==
    { REGISTER_PREFIX \o <<"r">>, AUTH_PREFIX \o <<"x">>,
      LS_PREFIX \o <<"/">>, CAT_PREFIX \o <<"/", "a">>,
      MKDIR_PREFIX \o <<"/", "a">>, TOUCH_PREFIX \o <<"/", "a", " ", "x">>,
      <<"h", "i">> }

EffectsProcess ==
    /\ nmsgs < MaxEffectsMsgs
    /\ \E memo \in EffectsMemos : \E sig \in Signatures :
          ProcessIncomingMessage(Message(<<"s">>, memo, sig))

EffectsGrant ==
    /\ call.grants < MaxEffectsGrants
    /\ GrantWrite(<<"/">>, <<"s">>)

NextEffects ==
    \/ EffectsProcess
    \/ EffectsGrant

SpecEffects == Init /\ [][NextEffects]_vars

(***************************************************************************)
(* SpecLocal: a directory /a/b two levels below the root, set up by the    *)
(* owner of the root; calls on /a/b/c by another identity; write           *)
(* permission granted to that identity and public_read                     *)
(* switched off on the root, on /a and on /a/b; and signed messages of     *)
(* that identity that list /a/b and read /a/b/c.                           *)
(***************************************************************************)
LocalDirectories == { <<"/", "a">>, <<"/", "a", "/", "b">> }

LocalTarget == <<"/", "a", "/", "b", "/", "c">>

LocalNodes == { <<"/">> } \cup LocalDirectories

LocalMemos ==
    { REGISTER_PREFIX \o <<"r">>, AUTH_PREFIX \o <<"x">>,
      LS_PREFIX \o <<"/", "a", "/", "b">>, CAT_PREFIX \o LocalTarget }

LocalProcess ==
    /\ nmsgs < MaxLocalMsgs
    /\ \E memo \in LocalMemos :
          ProcessIncomingMessage(Message(<<"s">>, memo, Some(<<"s", "i", "g">>)))

LocalSetup ==
    /\ call.n < MaxLocalCalls
    /\ \E path \in LocalDirectories :
          /\ ~IsSome(resolve_path(filesystem, path))
          /\ IsSome(resolve_path(filesystem, split_path(path).parent_path))
          /\ CreateDirectory(path, COORDINATOR)

LocalCreateDirectory ==
    /\ call.n < MaxLocalCalls
    /\ CreateDirectory(LocalTarget, <<"s">>)

LocalCreateFile ==
    /\ call.n < MaxLocalCalls
    /\ CreateFile(LocalTarget, <<"x">>, <<"s">>)

LocalRemove ==
    /\ call.n < MaxLocalCalls
    /\ RemovePath(LocalTarget, <<"s">>)

LocalGrantWrite ==
    /\ call.grants < MaxLocalEdits
    /\ \E path \in LocalNodes : GrantWrite(path, <<"s">>)

LocalSetPublicRead ==
    /\ call.grants < MaxLocalEdits
    /\ \E path \in LocalNodes : SetPublicRead(path, FALSE)

NextLocal ==
    \/ LocalProcess
    \/ LocalSetup
    \/ LocalCreateDirectory
    \/ LocalCreateFile
    \/ LocalRemove
    \/ LocalGrantWrite
    \/ LocalSetPublicRead

SpecLocal == Init /\ [][NextLocal]_vars

(***************************************************************************)
(* SpecIsolation: the coordinator under signed REGISTER and AUTH messages  *)
(* of two senders, one named as the other followed by a digit, that give   *)
(* different reply addresses, over a stretch of time in which the number   *)
(* of digits of the clock changes.                                         *)
(***************************************************************************)
IsolationProcess ==
    /\ nmsgs < MaxIsolationMsgs
    /\ \E sender \in SessionSenders :
       \E memo \in { REGISTER_PREFIX \o r : r \in Replies } \cup { AUTH_PREFIX \o <<"x">> } :
          ProcessIncomingMessage(Message(sender, memo, Some(<<"s", "i", "g">>)))

NextIsolation ==
    \/ IsolationProcess
    \/ LongTick

SpecIsolation == Init /\ [][NextIsolation]_vars

(***************************************************************************)
(* SpecOwner: the filesystem under direct calls on a child of the root and *)
(* a grandchild, with public_write of the root switched on and off.        *)
(***************************************************************************)
OwnerPaths == { <<"/", "a">>, <<"/", "a", "/", "b">> }

OwnerCreateDirectory == CreateDirectoryIn(OwnerPaths)

OwnerCreateFile == CreateFileIn(OwnerPaths, {<<"x">>})

OwnerRemove == RemoveIn(OwnerPaths)

OwnerSetPublicWrite ==
    /\ call.grants < MaxOwnerGrants
    /\ \E flag \in BOOLEAN : SetPublicWrite(<<"/">>, flag)

NextOwner ==
    \/ OwnerCreateDirectory
    \/ OwnerCreateFile
    \/ OwnerRemove
    \/ OwnerSetPublicWrite

SpecOwner == Init /\ [][NextOwner]_vars

(***************************************************************************)
(* Properties.                                                             *)
(***************************************************************************)
\* the step is a call of process_incoming_message
Processed == nmsgs' = nmsgs + 1

C2_RegisterThenAuth ==
    [][\A S \in AllSenders :
          (S \notin DOMAIN verified_users /\ S \in DOMAIN verified_users')
          => /\ S \in DOMAIN registered_at
             /\ S \in DOMAIN pending_challenges
             /\ Processed
             /\ route' = "authentication"
             /\ reply'.ok
             /\ message'.sender_address = S
             /\ IsSome(message'.signature)]_vars

\* a sender has just become verified
C2_Witness ==
    /\ route = "authentication"
    /\ reply.ok
    /\ message.sender_address \in DOMAIN verified_users
    /\ message.sender_address \in DOMAIN registered_at

\* C3: an AUTH authenticates its sender only if the text it presents is the
\* latest challenge token issued to the sender.
C3_OnlyLatestToken ==
    [][(Processed /\ route' = "authentication" /\ reply'.ok)
       => /\ message'.sender_address \in DOMAIN pending_challenges
          /\ StripPrefix(message'.memo_text, AUTH_PREFIX)
                = pending_challenges[message'.sender_address]]_vars

\* C4: a signed AUTH from a sender whose REGISTER:R is the last it sent, and
\* is not yet authenticated, succeeds with a session id that resolves to R,
\* and the sender is verified with reply address R.
C4_RoundTrip ==
    [][(Processed /\ route' = "authentication" /\ IsSome(message'.signature)
          /\ message'.sender_address \in DOMAIN registered_at
          /\ message'.sender_address \in DOMAIN pending_challenges)
       => /\ reply'.ok
          /\ reply'.text = "Authentication successful. Session ID: {}"
          /\ Get(session_mappings', reply'.arg)
                = Some(registered_at[message'.sender_address].reply_address)
          /\ Get(verified_users', message'.sender_address)
                = Some(registered_at[message'.sender_address].reply_address)
          /\ message'.sender_address \in DOMAIN verified_users']_vars

\* C5: an AUTH fails exactly when its sender has no pending challenge or it
\* carries no signature; it then returns the "Authentication failed" error
\* and verified_users, pending_challenges and session_mappings are as before.
C5_FailedAuthChangesNothing ==
    [][(Processed /\ route' = "authentication")
       => /\ ~reply'.ok <=>
               (message'.sender_address \notin DOMAIN pending_challenges
                   \/ ~IsSome(message'.signature))
          /\ ~reply'.ok => (reply' = AuthFailed /\ UNCHANGED registries)]_vars

\* an unsigned AUTH failed and its sender's challenge is still pending
C5_Witness ==
    /\ route = "authentication"
    /\ reply = AuthFailed
    /\ message.sender_address \in DOMAIN pending_challenges

\* C6: a successful AUTH removes its sender's pending challenge, an AUTH from
\* a sender without a pending challenge fails, and pending_challenges changes
\* only by a REGISTER (which sets the sender's entry to the token issued) and
\* by a successful AUTH (which removes the sender's entry).
C6_ChallengeOneTime ==
    [][/\ (Processed /\ route' = "authentication" /\ reply'.ok)
          => pending_challenges'
                = Remove(pending_challenges, message'.sender_address)
       /\ (Processed /\ route' = "authentication"
             /\ message'.sender_address \notin DOMAIN pending_challenges)
          => reply' = AuthFailed
       /\ pending_challenges' # pending_challenges
          => /\ Processed
             /\ reply'.ok
             /\ \/ /\ route' = "registration"
                   /\ pending_challenges'
                        = Insert(pending_challenges, message'.sender_address,
                                 reply'.arg)
                \/ /\ route' = "authentication"
                   /\ pending_challenges'
                        = Remove(pending_challenges, message'.sender_address)]_vars

\* a verified sender's second signed AUTH, with no REGISTER since, failed
C6_Witness ==
    /\ route = "authentication"
    /\ reply = AuthFailed
    /\ IsSome(message.signature)
    /\ message.sender_address \in DOMAIN verified_users
    /\ message.sender_address \notin DOMAIN pending_challenges

\* C7: session_mappings holds at most one session id issued to each sender.
C7_OneSessionPerSender ==
    \A S \in AllSenders :
        Cardinality({ p \in issued_sessions :
                        p[1] = S /\ p[2] \in DOMAIN session_mappings }) <= 1

\* C8: no session id is issued to two different senders.
C8_SessionIdOfOneSender ==
    \A p \in issued_sessions : \A q \in issued_sessions :
        p[2] = q[2] => p[1] = q[1]

\* C9: after cleanup_expired_sessions, a sender whose authentication is older
\* than the timeout is not in verified_users and no session id issued to it
\* resolves.
C9_SessionExpiry ==
    [][CleanupExpiredSessions
       => \A S \in DOMAIN authenticated_at :
             clock - authenticated_at[S] > SessionTimeout
             => /\ ~is_user_verified(S)'
                /\ \A p \in issued_sessions :
                      p[1] = S => ~IsSome(get_reply_address_by_session(p[2])')]_vars

\* C10: after cleanup_expired_sessions, a sender whose pending challenge is
\* older than the timeout has no pending challenge.
C10_ChallengeExpiry ==
    [][CleanupExpiredSessions
       => \A S \in DOMAIN pending_challenges :
             clock - registered_at[S].at > SessionTimeout
             => S \notin DOMAIN pending_challenges']_vars

\* C11: cleanup_expired_sessions can be called in every state, the empty one
\* included; it changes none of verified_users, pending_challenges and
\* session_mappings, and a second call at the same clock value changes
\* nothing: the session manager it leaves is the one a further sweep leaves.
C11_CleanupIdempotent ==
    [][/\ ENABLED CleanupExpiredSessions
       /\ CleanupExpiredSessions
          => /\ UNCHANGED registries
             /\ auth_cleanup_expired_sessions(auth_sessions', clock', SessionTimeout)
                   = auth_sessions']_vars

\* the sweep has removed every session of the senders that registered
C11_Witness ==
    /\ route = "cleanup"
    /\ registered_at # EmptyMap
    /\ auth_sessions = EmptyMap

\* the reply identities tried in REGISTER: those of Replies, the empty one,
\* and one that holds the separator
RegisterReplies == Replies \cup {<<>>, <<"a", ":", "b">>}

\* out, the outcome of a REGISTER from sender, is Ok, its reply holds AUTH:
\* followed by the token issued, and that token is the sender's pending
\* challenge
RegistrationSucceeded(sender, out) ==
    /\ out.route = "registration"
    /\ out.reply.ok
    /\ out.reply.text = "Registration initiated. Please sign and send: AUTH:{}"
    /\ out.reply.arg = generate_challenge(sender, clock)
    /\ Get(out.pending_challenges, sender) = Some(out.reply.arg)
    /\ \A S \in DOMAIN out.pending_challenges \ {sender} :
          Get(pending_challenges, S) = Some(out.pending_challenges[S])
    /\ DOMAIN out.pending_challenges = DOMAIN pending_challenges \cup {sender}

Writes == {"create_directory", "create_file", "remove"}

PermissionDenied == Err("Permission denied: cannot write to parent directory", <<>>)

ParentNotFound(parent_path) == Err("Parent directory not found: ", parent_path)

\* the last call, by user on a child of parent (the node its parent path
\* resolved to before the call, if any), succeeded only with write permission
\* on parent, and failed with the matching error without it or without parent
WriteGuarded(parent, user) ==
    /\ reply.ok => /\ IsSome(parent)
                   /\ Unwrap(parent).file_type = Directory
                   /\ can_write(Unwrap(parent).permissions, user)
    /\ ~IsSome(parent) => reply = ParentNotFound(split_path(call.path).parent_path)
    /\ (IsSome(parent) /\ ~can_write(Unwrap(parent).permissions, user))
       => reply = PermissionDenied

\* C13: a create_directory, create_file or remove call (on a path that
\* splits into parent path and name) succeeds only if its actor could write
\* the parent directory before the call; it fails with "Permission denied" if
\* the parent resolves and the actor cannot write it, and with "Parent
\* directory not found" if the parent path does not resolve.
C13_NoUnauthorizedWrite ==
    (call.op \in Writes /\ split_path(call.path).res.ok)
    => WriteGuarded(resolve_path(call.before, split_path(call.path).parent_path),
                    call.user)

\* a write grantee of the root, neither its owner nor helped by public_write,
\* has created a directory in it
C13_Witness ==
    /\ call.op = "create_directory"
    /\ reply.ok
    /\ call.user = <<"s">>
    /\ call.path = <<"/", "a">>
    /\ ~call.before.root.permissions.public_write
    /\ call.before.root.permissions.owner # <<"s">>
    /\ Contains(call.before.root.permissions.write_users, <<"s">>)

\* memo is a mkdir or a touch command
IsWriteCommand(memo) == StartsWith(memo, MKDIR_PREFIX) \/ StartsWith(memo, TOUCH_PREFIX)

C15_NoPartialApplication ==
    (call.op \in Writes /\ ~reply.ok) => filesystem = call.before

\* a create_directory below a file failed in add_child, after the parent was
\* found and the permission test passed, and the tree is as before
C15_Witness ==
    /\ call.op = "create_directory"
    /\ reply = Err("Cannot add children to a file", <<>>)
    /\ filesystem = call.before

\* found is a node of kind file_type, created and owned by the actor of the
\* last call
CreatedAs(found, file_type) ==
    /\ IsSome(found)
    /\ Unwrap(found).file_type = file_type
    /\ Unwrap(found).created_by = call.user
    /\ Unwrap(found).permissions.owner = call.user

\* C16: after a create_directory(p, a) that returned Ok, resolve_path(p) is a
\* Directory created and owned by a; after a create_file(p, c, a) that
\* returned Ok, resolve_path(p) is a File with content c, created and owned
\* by a.
C16_CreateThenResolve ==
    /\ (call.op = "create_directory" /\ reply.ok)
       => CreatedAs(resolve_path(filesystem, call.path), Directory)
    /\ (call.op = "create_file" /\ reply.ok)
       => /\ CreatedAs(resolve_path(filesystem, call.path), File)
          /\ Unwrap(resolve_path(filesystem, call.path)).content = Some(call.content)

\* a create_file has put a file where a directory was
C16_Witness ==
    /\ call.op = "create_file"
    /\ reply.ok
    /\ IsSome(resolve_path(call.before, call.path))
    /\ Unwrap(resolve_path(call.before, call.path)).file_type = Directory
    /\ Unwrap(resolve_path(filesystem, call.path)).file_type = File

NonEmpty(part) == Len(part) > 0

\* the names resolve_path walks through for path
Segments(path) == SelectSeq(Split(TrimStartMatches(path, "/"), "/"), NonEmpty)

\* a node without its subtrees: its own fields and the names of its children
Own(node) == [node EXCEPT !.children = DOMAIN node.children]

\* the nodes of the tree below node, each with the names that lead to it
RECURSIVE Flatten(_, _)
Flatten(node, at) ==
    {<<at, Own(node)>>}
    \cup UNION { Flatten(node.children[k], Append(at, k)) : k \in DOMAIN node.children }

\* after is before without the nodes at and below names, every other node
\* as it was, but for the parent, which lost the child and may have another
\* modified time
RemovedOnly(before, after, names) ==
    /\ \A f \in after : ~StartsWith(f[1], names)
    /\ \A f \in after : \E e \in before : e[1] = f[1]
    /\ \A e \in before :
          ~StartsWith(e[1], names)
          => \E f \in after :
                /\ f[1] = e[1]
                /\ f[2] = IF e[1] = SubSeq(names, 1, Len(names) - 1)
                          THEN [e[2] EXCEPT !.children = @ \ {names[Len(names)]},
                                            !.modified_at = f[2].modified_at]
                          ELSE e[2]

\* C17: after a remove(p, actor) that returned Ok, resolve_path(p) and
\* resolve_path of every path below p find nothing, and every node outside
\* the removed subtree is as before, except that the parent lost the child
\* and may have another modified time.
C17_RemoveThenResolve ==
    (call.op = "remove" /\ reply.ok)
    => /\ ~IsSome(resolve_path(filesystem, call.path))
       /\ \A q \in Paths \cup OddPaths :
             StartsWith(Segments(q), Segments(call.path))
             => ~IsSome(resolve_path(filesystem, q))
       /\ RemovedOnly(Flatten(call.before.root, <<>>), Flatten(filesystem.root, <<>>),
                      Segments(call.path))

\* a directory that had a child was removed, later than its parent was last
\* modified
C17_Witness ==
    /\ call.op = "remove"
    /\ reply.ok
    /\ call.path = <<"/", "a">>
    /\ IsSome(resolve_path(call.before, <<"/", "a", "/", "b">>))
    /\ filesystem.root.modified_at # call.before.root.modified_at

\* C18: remove("/", actor) returns the "Cannot remove root directory" error
\* for every actor and leaves the tree as it was.
C18_CannotRemoveRoot ==
    (call.op = "remove" /\ call.path = <<"/">>)
    => /\ reply = Err("Cannot remove root directory", <<>>)
       /\ filesystem = call.before

\* the root's owner tried to remove a root that has children
C18_Witness ==
    /\ call.op = "remove"
    /\ call.path = <<"/">>
    /\ call.user = filesystem.root.permissions.owner
    /\ DOMAIN filesystem.root.children # {}
    /\ ~reply.ok

\* C19: in every state the root exists and "/" resolves to it, it is a
\* Directory named "/", and it has the owner, the creator and the creation
\* time it was constructed with.
C19_RootInvariant ==
    /\ resolve_path(filesystem, <<"/">>) = Some(filesystem.root)
    /\ filesystem.root.name = <<"/">>
    /\ filesystem.root.file_type = Directory
    /\ filesystem.root.content = None
    /\ filesystem.root.permissions.owner = COORDINATOR
    /\ filesystem.root.created_by = COORDINATOR
    /\ filesystem.root.created_at = 0

\* a call on a spelling of the root path was made on a tree that has a
\* grandchild
C19_Witness ==
    /\ call.op \in Writes
    /\ call.path \in {<<"/">>, <<>>, <<"/", "/">>}
    /\ \E k \in DOMAIN filesystem.root.children :
          DOMAIN filesystem.root.children[k].children # {}

\* the last call was a remove of an item that existed: item, in the
\* directory parent, and it was denied exactly when its actor is neither the
\* owner of item nor able to write parent
RemoveRule(parent, name) ==
    (IsSome(parent) /\ name \in DOMAIN Unwrap(parent).children)
    => /\ reply.ok \/ reply = PermissionDenied
          \/ reply = Err("Permission denied: cannot remove item", <<>>)
       /\ ~reply.ok <=>
             /\ Unwrap(parent).children[name].permissions.owner # call.user
             /\ ~can_write(Unwrap(parent).permissions, call.user)

\* C20: a remove of an existing item other than the root is denied if and
\* only if its actor is neither the item's owner nor able to write the
\* parent directory.
C20_RemovePermissionRule ==
    (call.op = "remove" /\ call.path # <<"/">> /\ split_path(call.path).res.ok)
    => RemoveRule(resolve_path(call.before, split_path(call.path).parent_path),
                  split_path(call.path).name)

AlreadyExists == Err("Directory already exists", <<>>)

\* the last call was a create_directory of a name that parent (the node its
\* parent path resolved to before the call) already had as a child
NameTaken(parent, name) ==
    /\ call.op = "create_directory"
    /\ IsSome(parent)
    /\ name \in DOMAIN Unwrap(parent).children

\* C21 as stated: a create_directory of a name the parent already has as a
\* child fails with "Directory already exists", whoever calls, and leaves the
\* tree as it was.
C21_AlreadyExistsForAll ==
    (split_path(call.path).res.ok
        /\ NameTaken(resolve_path(call.before, split_path(call.path).parent_path),
                     split_path(call.path).name))
    => (reply = AlreadyExists /\ filesystem = call.before)

\* C21: a create_directory of a name the parent already has as a child (a
\* file or a directory) fails and leaves the tree, the existing child and its
\* subtree included, as it was: with "Directory already exists" if the actor
\* can write the parent, with "Permission denied" if not.
C21_NeverOverwrites ==
    (split_path(call.path).res.ok
        /\ NameTaken(resolve_path(call.before, split_path(call.path).parent_path),
                     split_path(call.path).name))
    => /\ filesystem = call.before
       /\ reply = IF can_write(Unwrap(resolve_path(call.before,
                                  split_path(call.path).parent_path)).permissions,
                               call.user)
                  THEN AlreadyExists ELSE PermissionDenied

\* the owner of the root called create_directory on a directory that has a
\* child, and got "Directory already exists"
C21_Witness ==
    /\ call.op = "create_directory"
    /\ reply = AlreadyExists
    /\ IsSome(resolve_path(filesystem, call.path))
    /\ DOMAIN Unwrap(resolve_path(filesystem, call.path)).children # {}

\* the path named by the words of a touch memo resolves to a File that holds
\* the content the memo gives and was created by user
FileHolds(words, user) ==
    /\ IsSome(resolve_path(filesystem, words[2]))
    /\ Unwrap(resolve_path(filesystem, words[2])).file_type = File
    /\ Unwrap(resolve_path(filesystem, words[2])).content = Some(words[3])
    /\ Unwrap(resolve_path(filesystem, words[2])).created_by = user

\* the last message to change the tree was a touch
TouchedLast ==
    call.op = "process_incoming_message" /\ StartsWith(call.content, TOUCH_PREFIX)

\* C22: after a touch that returned Ok, and as long as no later message has
\* changed the tree, the file at its path holds the content and the
\* created_by of that touch, whatever was at the path before; a cat of that
\* path then returns that content.
C22_TouchOverwrites ==
    /\ TouchedLast => FileHolds(SplitN(3, call.content, " "), call.user)
    /\ (route = "command" /\ StartsWith(message.memo_text, TOUCH_PREFIX) /\ reply.ok)
       => FileHolds(SplitN(3, message.memo_text, " "), message.sender_address)
    /\ (route = "command" /\ StartsWith(message.memo_text, CAT_PREFIX) /\ TouchedLast
          /\ StripPrefix(message.memo_text, CAT_PREFIX)
                = SplitN(3, call.content, " ")[2])
       => reply = Ok("{}", SplitN(3, call.content, " ")[3])

\* touch /a y has replaced a file that held x, and cat /a returned y
C22_Witness ==
    /\ route = "command"
    /\ message.memo_text = CAT_PREFIX \o <<"/", "a">>
    /\ reply = Ok("{}", <<"y">>)
    /\ call.content = TOUCH_PREFIX \o <<"/", "a", " ", "y">>
    /\ IsSome(resolve_path(call.before, <<"/", "a">>))
    /\ Unwrap(resolve_path(call.before, <<"/", "a">>)).content = Some(<<"x">>)

\* the nodes of the tree below node, node included
RECURSIVE Nodes(_)
Nodes(node) ==
    {node} \cup UNION { Nodes(node.children[k]) : k \in DOMAIN node.children }

\* node is a Directory without content or a File without children, add_child
\* fails on it if it is a File, update_content if it is a Directory, and
\* both leave it as it is
KindKept(node) ==
    /\ node.file_type \in {Directory, File}
    /\ node.file_type = Directory
       => /\ node.content = None
          /\ update_content(node, <<"x">>, clock)
                = [res |-> Err("Cannot set content on a directory", <<>>),
                   node |-> node]
    /\ node.file_type = File
       => /\ DOMAIN node.children = {}
          /\ add_child(node, new_file(<<"b">>, <<"x">>, node.created_by, clock), clock)
                = [res |-> Err("Cannot add children to a file", <<>>), node |-> node]

\* the last call was a create below parent, which is a File
BelowFile(parent) ==
    /\ call.op \in {"create_directory", "create_file"}
    /\ IsSome(parent)
    /\ Unwrap(parent).file_type = File

\* C23: in every state each File has no children and each Directory has no
\* content; add_child on a File and update_content on a Directory return an
\* error and change nothing, so an update_content call on a directory and a
\* create below a file fail and leave the tree as it was.
C23_NodeKinds ==
    /\ \A node \in Nodes(filesystem.root) : KindKept(node)
    /\ (call.op = "update_content"
          /\ Unwrap(resolve_path(call.before, call.path)).file_type = Directory)
       => (~reply.ok /\ filesystem = call.before)
    /\ (split_path(call.path).res.ok
          /\ BelowFile(resolve_path(call.before, split_path(call.path).parent_path)))
       => (~reply.ok /\ filesystem = call.before)

\* update_content on a directory failed, in a tree that has a file
C23_Witness ==
    /\ call.op = "update_content"
    /\ reply = Err("Cannot set content on a directory", <<>>)
    /\ \E node \in Nodes(filesystem.root) : node.file_type = File

\* the paths resolved in the states of SpecPaths: those of its calls, the
\* grandchild spelled plainly and with doubled and trailing slashes, and a
\* child of the root that no call creates
ResolvePaths ==
    OddPaths \cup { <<"/", "a", "/", "b">>, <<"/", "a", "/", "/", "b", "/">>,
                    <<"/", "b">> }

\* the path of the first n of names, spelled plainly
Plain(names, n) == <<"/">> \o Join(SubSeq(names, 1, n), <<"/">>)

\* below the node found (or not) at the first n of names, the next name leads
\* on only if that node is there and has a child of that name: the path
\* names is not found if it is not there, and is that child if the name is
\* the last one
StepsFrom(fs, names, n, found) ==
    /\ ~IsSome(found) => resolve_path(fs, Plain(names, Len(names))) = None
    /\ (IsSome(found) /\ names[n + 1] \notin DOMAIN Unwrap(found).children)
       => resolve_path(fs, Plain(names, n + 1)) = None
    /\ (IsSome(found) /\ Unwrap(found).file_type = File)
       => resolve_path(fs, Plain(names, Len(names))) = None
    /\ (IsSome(found) /\ names[n + 1] \in DOMAIN Unwrap(found).children)
       => resolve_path(fs, Plain(names, n + 1))
             = Some(Unwrap(found).children[names[n + 1]])

\* C24: resolve_path("/") is the root; a path resolves to what the path of
\* its non-empty segments resolves to; a path is not found as soon as one of
\* its segments is not a child of the node reached so far, in particular
\* when that node is a File.
C24_ResolvePath ==
    /\ resolve_path(filesystem, <<"/">>) = Some(filesystem.root)
    /\ \A path \in ResolvePaths :
          /\ resolve_path(filesystem, path)
                = resolve_path(filesystem, Plain(Segments(path), Len(Segments(path))))
          /\ \A n \in 0..(Len(Segments(path)) - 1) :
                StepsFrom(filesystem, Segments(path), n,
                          resolve_path(filesystem, Plain(Segments(path), n)))

\* the tree has the file /a/b, found through doubled and trailing slashes
C24_Witness ==
    /\ IsSome(resolve_path(filesystem, <<"/", "a", "/", "/", "b", "/">>))
    /\ Unwrap(resolve_path(filesystem, <<"/", "a", "/", "/", "b", "/">>)).file_type = File
    /\ Unwrap(resolve_path(filesystem, <<"/", "a", "/", "/", "b", "/">>)).name = <<"b">>

\* path has no leading slash or has a ".." segment
Unsupported(path) ==
    \/ ~StartsWith(path, <<"/">>)
    \/ \E i \in 1..Len(Segments(path)) : Segments(path)[i] = <<".", ".">>

\* C25: a path without a leading slash or with a ".." segment never resolves
\* to a node, and a create or remove on such a path fails and leaves the tree
\* as it was.
C25_RelativeFails ==
    /\ \A path \in RelativePaths :
          Unsupported(path) => resolve_path(filesystem, path) = None
    /\ (call.op \in {"create_directory", "create_file", "remove"}
          /\ Unsupported(call.path))
       => (~reply.ok /\ filesystem = call.before)

\* C26: create_directory and create_file on "/" return the "Cannot create
\* root directory" error for every actor and leave the tree as it was, and a
\* create on "/a/" does what the same create on "/a" does.
C26_CannotCreateRoot ==
    /\ (call.op \in {"create_directory", "create_file"} /\ call.path = <<"/">>)
       => /\ reply = Err("Cannot create root directory", <<>>)
          /\ filesystem = call.before
    /\ \A owner \in FsUsers :
          /\ create_directory(filesystem, <<"/", "a", "/">>, owner, clock)
                = create_directory(filesystem, <<"/", "a">>, owner, clock)
          /\ create_file(filesystem, <<"/", "a", "/">>, <<"x">>, owner, clock)
                = create_file(filesystem, <<"/", "a">>, <<"x">>, owner, clock)

\* out lists the children of node: one entry for each child, a directory's
\* name followed by "/" and a file's name as it is, in strictly ascending
\* order
Lists(out, node) ==
    /\ Len(out) = Cardinality(DOMAIN node.children)
    /\ \A i \in 1..Len(out) : \A j \in 1..Len(out) :
          i < j => StrLess(out[i], out[j])
    /\ \A name \in DOMAIN node.children :
          \E i \in 1..Len(out) :
             out[i] = IF node.children[name].file_type = Directory
                      THEN name \o <<"/">> ELSE name
    /\ \A i \in 1..Len(out) :
          (out[i][Len(out[i])] = "/")
          <=> \E name \in DOMAIN node.children :
                 /\ node.children[name].file_type = Directory
                 /\ out[i] = name \o <<"/">>

\* C27: for every node of the tree, whatever the order its children were
\* created in, list_children is in ascending lexicographic order, with a
\* trailing "/" on every directory and on no file.
C27_ListingSorted ==
    \A node \in Nodes(filesystem.root) : Lists(list_children(node), node)

\* the directory a was created last, after the files a. and b; it is listed
\* between them
C27_Witness ==
    /\ call.op = "create_directory"
    /\ call.path = <<"/", "a">>
    /\ reply.ok
    /\ list_children(filesystem.root) = << <<"a", ".">>, <<"a", "/">>, <<"b">> >>

\* the identities asked about: the actors of the direct calls and one that
\* never acts and is never granted anything
Identities == FsUsers \cup { <<"z">> }

\* id is one of the entries of users
Grantee(users, id) == \E i \in 1..Len(users) : users[i] = id

\* can_read and can_write of p answer for id by the public flag, the owner
\* and the entries of the two lists
Permits(p, id) ==
    /\ can_read(p, id) <=> (p.public_read \/ id = p.owner \/ Grantee(p.read_users, id))
    /\ can_write(p, id) <=> (p.public_write \/ id = p.owner \/ Grantee(p.write_users, id))

\* created is owned by owner, who can read and write it, and every other
\* identity can read it and cannot write it
FreshFor(created, owner) ==
    /\ created.permissions.owner = owner
    /\ can_read(created.permissions, owner)
    /\ can_write(created.permissions, owner)
    /\ \A id \in Identities \ {owner} :
          /\ can_read(created.permissions, id)
          /\ ~can_write(created.permissions, id)

\* C28: on every node can_read(id) holds iff the node is publicly readable or
\* id is its owner or one of its read_users, and can_write(id) iff it is
\* publicly writable or id is its owner or one of its write_users; a node
\* just created can be read and written by its owner and read, not written,
\* by every other identity.
C28_PermissionSemantics ==
    /\ \A node \in Nodes(filesystem.root) : \A id \in Identities :
          Permits(node.permissions, id)
    /\ (call.op \in {"create_directory", "create_file"} /\ reply.ok)
       => FreshFor(Unwrap(resolve_path(filesystem, call.path)), call.user)

\* an actor other than the root's owner created a node, which the root's
\* owner cannot write, below a root that is not publicly readable
C28_Witness ==
    /\ call.op = "create_directory"
    /\ reply.ok
    /\ call.user # filesystem.root.permissions.owner
    /\ ~filesystem.root.permissions.public_read
    /\ ~can_read(filesystem.root.permissions, <<"z">>)
    /\ ~can_write(Unwrap(resolve_path(filesystem, call.path)).permissions, COORDINATOR)

\* the number of entries of users that are id
Occurrences(users, id) == Cardinality({ i \in 1..Len(users) : users[i] = id })

\* after is before with id granted in the list named field: the list as it
\* was if id was in it and with id behind it otherwise, id in it once, and
\* every other field as it was
Granted(before, after, field, id) ==
    /\ after[field] = IF Grantee(before[field], id) THEN before[field]
                      ELSE Append(before[field], id)
    /\ Occurrences(after[field], id) = 1
    /\ \A other \in (DOMAIN before) \ {field} : after[other] = before[other]
    /\ DOMAIN after = DOMAIN before

\* the permissions of the node the last call was made on, in fs
CalledOn(fs) == Unwrap(resolve_path(fs, call.path)).permissions

\* C29: add_read_permission and add_write_permission leave the identity in
\* the list exactly once and every other field as it was, and a second grant
\* of the same identity changes nothing.
C29_GrantIdempotent ==
    /\ call.op = "add_read_permission"
       => /\ Granted(CalledOn(call.before), CalledOn(filesystem), "read_users", call.user)
          /\ add_read_permission(CalledOn(filesystem), call.user) = CalledOn(filesystem)
    /\ call.op = "add_write_permission"
       => /\ Granted(CalledOn(call.before), CalledOn(filesystem), "write_users", call.user)
          /\ add_write_permission(CalledOn(filesystem), call.user) = CalledOn(filesystem)
    /\ \A node \in Nodes(filesystem.root) : \A id \in Identities :
          /\ add_read_permission(add_read_permission(node.permissions, id), id)
                = add_read_permission(node.permissions, id)
          /\ add_write_permission(add_write_permission(node.permissions, id), id)
                = add_write_permission(node.permissions, id)

\* an identity other than the owner was granted write a second time, after
\* a first grant had put it in the list
C29_Witness ==
    /\ call.op = "add_write_permission"
    /\ call.user # CalledOn(filesystem).owner
    /\ Grantee(CalledOn(call.before).write_users, call.user)
    /\ Len(CalledOn(filesystem).write_users) = 2
    /\ filesystem = call.before

\* node is there and user can read it
Readable(node, user) == IsSome(node) /\ can_read(Unwrap(node).permissions, user)

\* the entries of a listing joined by two spaces
Entries(listing) == SelectSeq(Split(listing, " "), NonEmpty)

\* rep answers "ls path" of user, node being what path resolves to: an error
\* if node is not there, if user cannot read it or if it is a File, in that
\* order; the sentinel for a directory without children; otherwise the
\* entries of the directory, sorted, joined by two spaces
LsAnswer(rep, user, path, node) ==
    /\ ~IsSome(node) => rep = Err("Path not found: {}", path)
    /\ (IsSome(node) /\ ~Readable(node, user))
       => rep = Err("Permission denied: cannot read directory", <<>>)
    /\ (Readable(node, user) /\ Unwrap(node).file_type = File)
       => rep = Err("Not a directory", <<>>)
    /\ (Readable(node, user) /\ Unwrap(node).file_type = Directory
          /\ DOMAIN Unwrap(node).children = {})
       => rep = Ok("(empty directory)", <<>>)
    /\ (Readable(node, user) /\ Unwrap(node).file_type = Directory
          /\ DOMAIN Unwrap(node).children # {})
       => /\ rep = Ok("{}", Join(Entries(rep.arg), <<" ", " ">>))
          /\ Lists(Entries(rep.arg), Unwrap(node))

\* rep answers "cat path" of user, node being what path resolves to: an
\* error if node is not there, if user cannot read it or if it is a
\* Directory, in that order; otherwise the content, or the sentinel for a
\* file without content
CatAnswer(rep, user, path, node) ==
    /\ ~IsSome(node) => rep = Err("File not found: {}", path)
    /\ (IsSome(node) /\ ~Readable(node, user))
       => rep = Err("Permission denied: cannot read file", <<>>)
    /\ (Readable(node, user) /\ Unwrap(node).file_type = Directory)
       => rep = Err("Not a file", <<>>)
    /\ (Readable(node, user) /\ Unwrap(node).file_type = File
          /\ IsSome(Unwrap(node).content))
       => rep = Ok("{}", Unwrap(Unwrap(node).content))
    /\ (Readable(node, user) /\ Unwrap(node).file_type = File
          /\ ~IsSome(Unwrap(node).content))
       => rep = Ok("(empty file)", <<>>)

\* rep answers the ls or cat command msg on the tree fs
ReadAnswer(rep, msg, fs) ==
    /\ StartsWith(msg.memo_text, LS_PREFIX)
       => LsAnswer(rep, msg.sender_address, StripPrefix(msg.memo_text, LS_PREFIX),
                   resolve_path(fs, StripPrefix(msg.memo_text, LS_PREFIX)))
    /\ StartsWith(msg.memo_text, CAT_PREFIX)
       => CatAnswer(rep, msg.sender_address, StripPrefix(msg.memo_text, CAT_PREFIX),
                    resolve_path(fs, StripPrefix(msg.memo_text, CAT_PREFIX)))

\* C30: an ls or cat command of a verified sender fails if the path does not
\* resolve, else if the sender cannot read the node, else if the node is of
\* the other kind; otherwise ls returns the listing, or "(empty directory)"
\* when there are no children, and cat returns the content, or "(empty file)"
\* when the content is absent.  Neither changes the tree.
C30_ReadResults ==
    [][(nmsgs' = nmsgs + 1 /\ route' = "command")
       => /\ ReadAnswer(reply', message', filesystem)
          /\ filesystem' = filesystem]_vars

\* cat returned the sentinel for a file whose content was taken away
C30_Witness ==
    /\ route = "command"
    /\ message.memo_text = CAT_PREFIX \o <<"/", "a">>
    /\ reply = Ok("(empty file)", <<>>)
    /\ Unwrap(resolve_path(filesystem, <<"/", "a">>)).content = None

\* the texts of the Results process_incoming_message returns
ReplyTexts ==
    { "Registration initiated. Please sign and send: AUTH:{}",
      "Invalid registration format. Use REGISTER:<reply_address>",
      "Authentication successful. Session ID: {}",
      "Invalid auth format. Use AUTH:<signed_challenge>",
      "Authentication failed. Invalid signature or challenge.",
      "Authentication required. Send REGISTER:<reply_address> first.",
      "Unknown command. Try: ls <path>, cat <file>, mkdir <dir>, touch <file> [content]",
      "Path not found: {}", "Permission denied: cannot read directory",
      "Not a directory", "(empty directory)", "{}",
      "File not found: {}", "Permission denied: cannot read file", "Not a file",
      "(empty file)", "Directory created: {}", "File created: {}",
      "Invalid path", "Cannot create root directory", "Parent directory not found: ",
      "Permission denied: cannot write to parent directory",
      "Directory already exists", "Cannot add children to a file" }

\* memo starts with one of the four command words and its space
HasVerb(memo) ==
    \/ StartsWith(memo, LS_PREFIX)
    \/ StartsWith(memo, CAT_PREFIX)
    \/ StartsWith(memo, MKDIR_PREFIX)
    \/ StartsWith(memo, TOUCH_PREFIX)

\* C31: whatever the message and the state, process_incoming_message
\* returns an Ok or an Err with one of the coordinator's texts, through one
\* of its four branches; a memo of a verified, signing sender that starts
\* with no command word is answered with the "Unknown command" error.
C31_ProcessTotal ==
    nmsgs > 0
    => /\ DOMAIN reply = {"ok", "text", "arg"}
       /\ reply.ok \in BOOLEAN
       /\ reply.text \in ReplyTexts
       /\ route \in {"registration", "authentication", "command", "rejected"}
       /\ (route = "command" /\ ~HasVerb(message.memo_text))
          => reply = UnknownCommand
       /\ (route = "command" /\ HasVerb(message.memo_text))
          => reply # UnknownCommand

\* a verified sender's "touch " without a path was answered with an error
\* of create_file
C31_Witness ==
    /\ route = "command"
    /\ message.memo_text = TOUCH_PREFIX
    /\ reply = Err("Invalid path", <<>>)

\* the last call was a remove of name below parent (the node its parent path
\* resolved to before the call), which is there
RemovedBelow(parent, name) ==
    /\ call.op = "remove"
    /\ call.path # <<"/">>
    /\ IsSome(parent)

\* a remove below parent of a name it has no child of is answered with "File
\* or directory not found", and one answered with a "Permission denied" error
\* was of a name it has a child of
NotFoundFirst(parent, name) ==
    /\ name \notin DOMAIN Unwrap(parent).children
       => reply = Err("File or directory not found: ", call.path)
    /\ (reply = PermissionDenied
          \/ reply = Err("Permission denied: cannot remove item", <<>>))
       => name \in DOMAIN Unwrap(parent).children

\* C32: a remove of a path other than the root whose parent resolves and has
\* no child of that name returns the not-found error whatever the actor may
\* write; a permission error is returned only for an item that exists.
C32_RemoveNotFoundFirst ==
    (split_path(call.path).res.ok
        /\ RemovedBelow(resolve_path(call.before, split_path(call.path).parent_path),
                        split_path(call.path).name))
    => NotFoundFirst(resolve_path(call.before, split_path(call.path).parent_path),
                     split_path(call.path).name)

\* the messages of handled, in the order they were handled in
MessagesOf(handled) == [i \in 1..Len(handled) |-> handled[i].message]

\* the loop is at its poll or inside its for loop; the messages handled so
\* far followed by those still to handle are the batch as polled; the poll
\* comes only when none is left; after a polling error the loop is at its
\* poll again
DaemonInOrder ==
    /\ daemon.pc \in {"poll", "process"}
    /\ MessagesOf(daemon.handled) \o daemon.batch = daemon.polled
    /\ daemon.pc = "process" <=> daemon.batch # <<>>
    /\ daemon.last = "poll_error" => daemon.pc = "poll"
    /\ daemon.last \in {"processed", "process_error"}
       => message = daemon.handled[Len(daemon.handled)].message

\* a step that changes the coordinator is one whole call of
\* process_incoming_message, on the first of the messages still to handle
OneAtATime ==
    (<<registries, auth_sessions, filesystem, message, route, reply, nmsgs>>'
        # <<registries, auth_sessions, filesystem, message, route, reply, nmsgs>>)
    => /\ nmsgs' = nmsgs + 1
       /\ daemon.pc = "process"
       /\ message' = Head(daemon.batch)
       /\ MessagesOf(daemon'.handled) = Append(MessagesOf(daemon.handled), message')
       /\ daemon'.batch = Tail(daemon.batch)

PollsOf(trace) == SelectSeq(trace, LAMBDA step : step.kind = "poll")

\* the sleeps of trace, in order
SleepsOf(trace) == SelectSeq(trace, LAMBDA step : step.kind = "sleep")

\* polls is a run of failed polls, but for the last one, which may have
\* succeeded
FailedButLast(polls) == \A i \in 1..(Len(polls) - 1) : ~polls[i].returned.ok

\* the call has polled at most max(attempts, 1) times, never again after a
\* poll that succeeded, and has slept delay_ms between two polls and at no
\* other time; once it has returned, it has returned what its last poll
\* returned: the messages of the first poll that succeeded, or, after
\* max(attempts, 1) failed polls, the error of the last one
RetryBounded ==
    /\ Len(PollsOf(poller.trace)) <= Max(poller.attempts, 1)
    /\ FailedButLast(PollsOf(poller.trace))
    /\ \A i \in 1..Len(poller.trace) :
          poller.trace[i] = IF i % 2 = 1 THEN PollsOf(poller.trace)[(i + 1) \div 2]
                            ELSE [kind |-> "sleep", ms |-> poller.delay_ms]
    /\ poller.pc = "poll"
       => /\ Len(poller.trace) = 2 * (poller.attempt - 1)
          /\ FailedButLast(Append(PollsOf(poller.trace), [returned |-> Err("", <<>>)]))
    /\ poller.pc = "done"
       => /\ Len(poller.trace) % 2 = 1
          /\ poller.result = Some(poller.trace[Len(poller.trace)].returned)
          /\ ~Unwrap(poller.result).ok
             => /\ Len(PollsOf(poller.trace)) = Max(poller.attempts, 1)
                /\ poller.result = poller.last_error

\* C34: poll_with_retry polls at most max(attempts, 1) times, returns the
\* messages of the first successful poll without polling again, returns the
\* error of the last attempt when all attempts fail, sleeps delay_ms between
\* attempts and not after the last one, and returns in the end.
C34_BoundedRetry ==
    /\ []RetryBounded
    /\ (poller.pc = "poll") ~> (poller.pc = "done")

\* all three attempts failed: the error of the third was returned after two
\* sleeps
C34_Witness ==
    /\ poller.pc = "done"
    /\ poller.attempts = 3
    /\ Len(PollsOf(poller.trace)) = 3
    /\ Len(SleepsOf(poller.trace)) = 2
    /\ poller.result = Some(Err("e2", <<>>))
    /\ PollsOf(poller.trace)[1].returned = Err("e1", <<>>)

\* memo is neither a REGISTER nor an AUTH
IsCommand(memo) ==
    ~StartsWith(memo, REGISTER_PREFIX) /\ ~StartsWith(memo, AUTH_PREFIX)

\* a REGISTER leaves verified_users as it was; a signed command of a sender
\* that is in verified_users is dispatched, whether a challenge is pending
\* for it or not; verified_users changes only by a successful AUTH, and only
\* in the entry of its sender
StaysVerified ==
    /\ (Processed /\ StartsWith(message'.memo_text, REGISTER_PREFIX))
       => verified_users' = verified_users
    /\ (Processed /\ IsCommand(message'.memo_text) /\ IsSome(message'.signature)
          /\ message'.sender_address \in DOMAIN verified_users)
       => route' = "command"
    /\ verified_users' # verified_users
       => /\ Processed
          /\ route' = "authentication"
          /\ reply'.ok
          /\ \A sender \in DOMAIN verified_users :
                sender # message'.sender_address
                => Get(verified_users', sender) = Get(verified_users, sender)

\* C35: a REGISTER of a verified sender leaves it in verified_users with the
\* reply address it had; its signed commands are dispatched while the new
\* challenge is pending; its reply address in verified_users changes only
\* with its next successful AUTH.
C35_ReregisterKeepsVerified == [][StaysVerified]_vars

\* a sender verified with reply address r has registered again with q, and
\* its ls was dispatched while the new challenge was pending
C35_Witness ==
    /\ route = "command"
    /\ message.sender_address = <<"s">>
    /\ <<"s">> \in DOMAIN pending_challenges
    /\ Get(verified_users, <<"s">>) = Some(<<"r">>)
    /\ registered_at[<<"s">>].reply_address = <<"q">>

\* C36: in every state, the reply address session_mappings holds for a
\* session id equals the reply address verified_users holds for the sender
\* the id was issued to.
C36_RegistryConsistent ==
    \A issued \in issued_sessions :
       issued[2] \in DOMAIN session_mappings
       => Get(verified_users, issued[1]) = Some(session_mappings[issued[2]])

\* the step leaves what the registries hold for other as it was: its pending
\* challenge, its entry of verified_users, and the entries of
\* session_mappings under the session ids issued to it
Untouched(other) ==
    /\ Get(pending_challenges', other) = Get(pending_challenges, other)
    /\ Get(verified_users', other) = Get(verified_users, other)
    /\ \A issued \in issued_sessions :
          issued[1] = other
          => Get(session_mappings', issued[2]) = Get(session_mappings, issued[2])

\* C37: the processing of a message of one sender leaves the pending
\* challenge and the verified_users entry of every other sender, and the
\* session_mappings entries issued to it, as they were.
C37_SenderIsolation ==
    [][Processed
       => \A other \in SessionSenders \ {message'.sender_address} :
             Untouched(other)]_vars

\* the memo asks only to read: an ls or a cat
ReadsOnly(memo) == StartsWith(memo, LS_PREFIX) \/ StartsWith(memo, CAT_PREFIX)

\* the step processes a message that must have no effect, and has none on
\* the tree or on the three registries; or it processes a REGISTER or an
\* AUTH, and has none on the tree
NoEffect ==
    LET msg == message'
        sent == nmsgs' = nmsgs + 1
        authentic == msg.sender_address \in DOMAIN verified_users
                     /\ IsSome(msg.signature)
    IN  sent
        => /\ ~IsCommand(msg.memo_text) => filesystem' = filesystem
           /\ IsCommand(msg.memo_text)
              /\ (~authentic \/ ReadsOnly(msg.memo_text) \/ ~HasVerb(msg.memo_text))
              => /\ filesystem' = filesystem
                 /\ verified_users' = verified_users
                 /\ pending_challenges' = pending_challenges
                 /\ session_mappings' = session_mappings

\* C38: a message rejected at the authentication gate, an unknown command,
\* and every ls and cat leave the tree and the three registries as they
\* were; a REGISTER and an AUTH leave the tree as it was.
C38_NoEffect == [][NoEffect]_vars

\* an ls of the root has listed a tree to which an earlier command added /a
C38_Witness ==
    /\ route = "command"
    /\ message.memo_text = LS_PREFIX \o <<"/">>
    /\ reply.ok
    /\ IsSome(resolve_path(filesystem, <<"/", "a">>))

\* path was a directory of the tree fs
WasDirectory(fs, path) ==
    /\ IsSome(resolve_path(fs, path))
    /\ Unwrap(resolve_path(fs, path)).file_type = Directory

\* the paths of SpecFs below path
Below(path) ==
    { p \in Paths : Len(p) > Len(path) + 1
                    /\ SubSeq(p, 1, Len(path) + 1) = path \o <<"/">> }

\* C39: create_file on the path of a directory succeeds for every actor that
\* can write the parent, whoever owns the directory; afterwards the path
\* resolves to a File without children owned by the caller, and no path
\* below it resolves.
C39_CreateFileReplacesDirectory ==
    call.op = "create_file" /\ WasDirectory(call.before, call.path)
    => LET sp == split_path(call.path)
           parent == Unwrap(resolve_path(call.before, sp.parent_path))
           node == resolve_path(filesystem, call.path)
       IN  /\ reply.ok <=> can_write(parent.permissions, call.user)
           /\ reply.ok
              => /\ IsSome(node)
                 /\ Unwrap(node).file_type = File
                 /\ Unwrap(node).children = EmptyMap
                 /\ Unwrap(node).permissions.owner = call.user
                 /\ Unwrap(node).created_by = call.user
                 /\ \A p \in Below(call.path) : ~IsSome(resolve_path(filesystem, p))

\* create_file by an actor that does not own it has replaced a directory that
\* had a child
C39_Witness ==
    /\ call.op = "create_file"
    /\ reply.ok
    /\ WasDirectory(call.before, call.path)
    /\ Unwrap(resolve_path(call.before, call.path)).permissions.owner # call.user
    /\ \E p \in Below(call.path) : IsSome(resolve_path(call.before, p))

\* the directories above path: the root and every proper prefix of path that
\* ends before a separator; none for the root itself
AncestorsOf(path) ==
    IF path = <<"/">> THEN {}
    ELSE { <<"/">> } \cup { SubSeq(path, 1, i - 1) : i \in { j \in 3..Len(path) : path[j] = "/" } }

\* permissions that let nobody of FsUsers in, and permissions that let
\* everybody in
Sealed ==
    [owner |-> <<"o">>, read_users |-> <<>>, write_users |-> <<>>,
     public_read |-> FALSE, public_write |-> FALSE]

Opened == [Sealed EXCEPT !.public_read = TRUE, !.public_write = TRUE]

\* the tree fs with the permissions of the nodes at paths replaced by perms
RECURSIVE Repermit(_, _, _)
Repermit(fs, paths, perms) ==
    IF paths = {} THEN fs
    ELSE LET path == CHOOSE p \in paths : TRUE
             node == resolve_path(fs, path)
         IN  Repermit(IF IsSome(node)
                      THEN write_path(fs, path, [Unwrap(node) EXCEPT !.permissions = perms])
                      ELSE fs,
                      paths \ {path}, perms)

\* the result of the call op(path, user) on the tree fs
ResultOn(fs, op, path, user, content) ==
    IF op = "create_directory" THEN create_directory(fs, path, user, clock).res
    ELSE IF op = "create_file" THEN create_file(fs, path, content, user, clock).res
    ELSE remove(fs, path, user, clock).res

\* the last call of create_directory, create_file or remove answered as it
\* would have on the same tree with everything above the parent sealed, and
\* with everything above the parent opened
LocalWrite ==
    call.op \in {"create_directory", "create_file", "remove"}
    => LET sp == split_path(call.path)
           above == IF sp.res.ok THEN AncestorsOf(sp.parent_path) ELSE {}
       IN  \A perms \in {Sealed, Opened} :
              ResultOn(Repermit(call.before, above, perms),
                       call.op, call.path, call.user, call.content)
              = ResultOn(call.before, call.op, call.path, call.user, call.content)

\* an ls or a cat of a node that is there is refused for want of permission
\* exactly when the sender cannot read that node
LocalRead ==
    LET memo == message'.memo_text
        path == IF StartsWith(memo, LS_PREFIX) THEN StripPrefix(memo, LS_PREFIX)
                ELSE StripPrefix(memo, CAT_PREFIX)
        node == resolve_path(filesystem, path)
    IN  nmsgs' = nmsgs + 1 /\ route' = "command" /\ ReadsOnly(memo) /\ IsSome(node)
        => (reply'.text \in {"Permission denied: cannot read directory",
                             "Permission denied: cannot read file"}
            <=> ~can_read(Unwrap(node).permissions, message'.sender_address))

\* C40: create_directory, create_file and remove consult the write
\* permission of the direct parent only, and ls and cat the read permission
\* of the target only; the permissions of the nodes further up the path do
\* not change the outcome.
C40_LocalChecks == []LocalWrite /\ [][LocalRead]_vars

\* an actor that can write neither the root nor /a has removed /a/b/c
C40_Witness ==
    /\ call.op = "remove"
    /\ call.path = LocalTarget
    /\ IsSome(resolve_path(call.before, LocalTarget))
    /\ ~IsSome(resolve_path(filesystem, LocalTarget))
    /\ ~can_write(call.before.root.permissions, call.user)
    /\ ~can_write(Unwrap(resolve_path(call.before, <<"/", "a">>)).permissions, call.user)

====
